---- MODULE Spec2Model ----
(***************************************************************************)
(* type-bridge: ORM schema -> TypeScript declarations.                     *)
(*                                                                         *)
(* The model follows the JavaScript sources: the Prisma adapter works on   *)
(* the text of schema.prisma (strings, character by character, as its      *)
(* regular expressions do), the Mongoose adapter on the runtime values of  *)
(* schema.obj, the normalizer and the dependency analysis on the field     *)
(* objects, the generator renders the text of the declarations, and        *)
(* generateTypes sequences them.                                           *)
(*                                                                         *)
(* JavaScript values.  An object is a record; a key the object does not    *)
(* have is a key missing from the record's DOMAIN (reading it gives        *)
(* undefined).  A string-valued attribute holds a string, or one of the    *)
(* two marks null / undefined.  A list-valued attribute (enumValues,       *)
(* nested) holds <<>> for null/undefined and <<list>> for a list, so that  *)
(* the empty list, which is truthy in JavaScript, stays apart from null.   *)
(***************************************************************************)
EXTENDS Integers, Sequences, FiniteSets, TLC

null == "<null>"
undefined == "<undefined>"

\* JavaScript truthiness of a string-valued attribute
Truthy(s) == s \notin {null, undefined, ""}
\* const v = ...; body(v)
Bind(v, body(_)) == body(v)

\* obj.key for a string-valued key
Str(obj, key) == IF key \in DOMAIN obj THEN obj[key] ELSE undefined
\* truthiness of obj.key for a boolean-valued key
Flag(obj, key) == key \in DOMAIN obj /\ obj[key]
\* obj.key for a list-valued key: <<>> (null/undefined) or <<list>>
List(obj, key) == IF key \in DOMAIN obj THEN obj[key] ELSE <<>>
\* `${x}` for a string-valued attribute
ToStr(s) == IF s = null THEN "null" ELSE IF s = undefined THEN "undefined" ELSE s
\* x || null
OrNull(s) == IF Truthy(s) THEN s ELSE null

RECURSIVE JoinStr(_, _)
\* Array.prototype.join
JoinStr(strs, sep) ==
  IF strs = <<>> THEN ""
  ELSE IF Len(strs) = 1 THEN strs[1]
  ELSE strs[1] \o sep \o JoinStr(Tail(strs), sep)

RECURSIVE Flatten(_)
\* concatenation of a sequence of sequences
Flatten(seqs) == IF seqs = <<>> THEN <<>> ELSE Head(seqs) \o Flatten(Tail(seqs))

\* Array.prototype.filter
RECURSIVE SelectIdx(_, _, _)
SelectIdx(s, Keep(_), i) ==
  IF i > Len(s) THEN <<>>
  ELSE (IF Keep(s[i]) THEN <<s[i]>> ELSE <<>>) \o SelectIdx(s, Keep, i + 1)
Filter(s, Keep(_)) == SelectIdx(s, Keep, 1)

\* String.prototype.endsWith / startsWith / includes
EndsWith(s, suffix) ==
  Len(s) >= Len(suffix) /\ SubSeq(s, Len(s) - Len(suffix) + 1, Len(s)) = suffix
StartsWith(s, prefix) ==
  Len(s) >= Len(prefix) /\ SubSeq(s, 1, Len(prefix)) = prefix
Includes(s, part) ==
  \E i \in 1..(Len(s) - Len(part) + 1) : SubSeq(s, i, i + Len(part) - 1) = part

(***************************************************************************)
(* core/normalizer.js                                                      *)
(***************************************************************************)
STANDARD_TYPES ==
  [STRING |-> "string", NUMBER |-> "number", BOOLEAN |-> "boolean",
   DATE |-> "Date", ARRAY |-> "array", OBJECT |-> "object", ANY |-> "any",
   NULL |-> "null", UNDEFINED |-> "undefined"]

\* normalizeField with required defaulted only for a field that has no such key:
\* `field.required === undefined` in place of `field.required !== false`
normalizeFieldRequiredWhenAbsent(field) ==
  [name |-> Str(field, "name"),
   type |-> IF Truthy(Str(field, "type")) THEN field.type ELSE STANDARD_TYPES.ANY,
   required |-> "required" \notin DOMAIN field,
   isPrimary |-> Flag(field, "isPrimary"),
   isArray |-> Flag(field, "isArray"),
   arrayOf |-> OrNull(Str(field, "arrayOf")),
   isEnum |-> Flag(field, "isEnum"),
   enumValues |-> List(field, "enumValues"),
   isReference |-> Flag(field, "isReference"),
   referenceTo |-> OrNull(Str(field, "referenceTo")),
   defaultValue |-> OrNull(Str(field, "defaultValue")),
   description |-> OrNull(Str(field, "description")),
   nested |-> List(field, "nested")]

normalizeField(field) ==
  [name |-> Str(field, "name"),
   type |-> IF Truthy(Str(field, "type")) THEN field.type ELSE STANDARD_TYPES.ANY,
   required |-> ~("required" \in DOMAIN field /\ field.required = FALSE),
   isPrimary |-> Flag(field, "isPrimary"),
   isArray |-> Flag(field, "isArray"),
   arrayOf |-> OrNull(Str(field, "arrayOf")),
   isEnum |-> Flag(field, "isEnum"),
   enumValues |-> List(field, "enumValues"),
   isReference |-> Flag(field, "isReference"),
   referenceTo |-> OrNull(Str(field, "referenceTo")),
   defaultValue |-> OrNull(Str(field, "defaultValue")),
   description |-> OrNull(Str(field, "description")),
   nested |-> List(field, "nested")]

normalizeModel(model) ==
  [modelName |-> Str(model, "modelName"),
   tableName |-> IF Truthy(Str(model, "tableName")) THEN model.tableName
                 ELSE Str(model, "modelName"),
   fields |-> LET fields == IF "fields" \in DOMAIN model THEN model.fields ELSE <<>>
              IN [i \in 1..Len(fields) |-> normalizeField(fields[i])],
   description |-> OrNull(Str(model, "description")),
   source |-> IF Truthy(Str(model, "source")) THEN model.source ELSE "unknown",
   filePath |-> OrNull(Str(model, "filePath"))]

(***************************************************************************)
(* generators/typescript-generator.js                                      *)
(***************************************************************************)
\* field.enumValues.map((v) => `'${v}'`).join(" | ")
enumUnion(enumValues) ==
  JoinStr([i \in 1..Len(enumValues) |-> "'" \o enumValues[i] \o "'"], " | ")

RECURSIVE fieldToTypeScript(_)
RECURSIVE generateInlineInterface(_)

\* The allModels parameter of the source is passed along and never read.
fieldToTypeScript(field) ==
  LET tsType ==
        IF Flag(field, "isEnum") /\ List(field, "enumValues") # <<>>
          THEN enumUnion(field.enumValues[1])
        ELSE IF Flag(field, "isArray") /\ Truthy(Str(field, "arrayOf"))
          THEN IF Flag(field, "isEnumArray") /\ List(field, "enumValues") # <<>>
                 THEN "(" \o enumUnion(field.enumValues[1]) \o ")[]"
                 ELSE field.arrayOf \o "[]"
        ELSE IF Flag(field, "isReference") /\ Truthy(Str(field, "referenceTo"))
          THEN field.referenceTo
        ELSE IF Str(field, "type") = STANDARD_TYPES.OBJECT /\ List(field, "nested") # <<>>
          THEN generateInlineInterface(field.nested[1])
        ELSE ToStr(Str(field, "type"))
  IN IF Flag(field, "required") THEN tsType ELSE tsType \o " | null"

generateInlineInterface(fields) ==
  LET fieldStrings ==
        [i \in 1..Len(fields) |->
           "  " \o ToStr(Str(fields[i], "name"))
                \o (IF Flag(fields[i], "required") THEN "" ELSE "?")
                \o ": " \o fieldToTypeScript(fields[i]) \o ";"]
  IN "{\n" \o JoinStr(fieldStrings, "\n") \o "\n}"

\* const { key = dflt } = options
Opt(options, key, dflt) == IF key \in DOMAIN options THEN options[key] ELSE dflt

generateEnum(enumDef, options) ==
  LET n == Len(enumDef.values)
      valueLines == [i \in 1..n |->
                       "  " \o enumDef.values[i] \o " = '" \o enumDef.values[i] \o "'"
                            \o (IF i - 1 < n - 1 THEN "," ELSE "")]
  IN JoinStr((IF Opt(options, "includeComments", TRUE)
                THEN <<"/** Auto-generated enum */">> ELSE <<>>)
             \o <<Opt(options, "exportType", "export") \o " enum " \o enumDef.name \o " {">>
             \o valueLines
             \o <<"}">>, "\n")

\* Set.prototype.add on a Set kept in insertion order
SetAdd(set, v) == IF \E i \in 1..Len(set) : set[i] = v THEN set ELSE Append(set, v)

primitives ==
  {"string", "number", "boolean", "Date", "any", "unknown", "void", "null",
   "undefined", "array", "object"}

\* the body of model.fields.forEach in collectTypeDependencies, on one field
collectFieldDependencies(dependencies, field, modelName, enumNames) ==
  LET add(deps, name) ==
        IF name \in enumNames
          THEN [deps EXCEPT !.enums = SetAdd(@, name)]
          ELSE [deps EXCEPT !.models = SetAdd(@, name)]
      arrayOf == Str(field, "arrayOf")
      type == Str(field, "type")
      referenceTo == Str(field, "referenceTo")
      afterType ==
        IF Flag(field, "isArray") /\ Truthy(arrayOf)
          THEN IF arrayOf \notin primitives /\ arrayOf # modelName
                 THEN add(dependencies, arrayOf) ELSE dependencies
        ELSE IF Truthy(type) /\ type \notin primitives /\ type # modelName
          THEN add(dependencies, type)
        ELSE dependencies
  IN IF Truthy(referenceTo) /\ referenceTo # type /\ referenceTo # modelName
       THEN add(afterType, referenceTo)
       ELSE afterType

RECURSIVE collectFrom(_, _, _, _, _)
collectFrom(dependencies, fields, i, modelName, enumNames) ==
  IF i > Len(fields) THEN dependencies
  ELSE collectFrom(collectFieldDependencies(dependencies, fields[i], modelName, enumNames),
                   fields, i + 1, modelName, enumNames)

collectTypeDependencies(model, allEnums) ==
  collectFrom([enums |-> <<>>, models |-> <<>>], model.fields, 1, model.modelName,
              {allEnums[i].name : i \in 1..Len(allEnums)})

\* fieldLine with the optional marker forgotten: the type is still unioned with
\* null, the name never gets its `?`
fieldLineUnmarked(field, readonly) ==
  "  " \o (IF readonly THEN "readonly " ELSE "") \o ToStr(Str(field, "name"))
       \o ": " \o fieldToTypeScript(field) \o ";"

\* the `name?: type;` line of one field in generateInterface
fieldLine(field, readonly) ==
  "  " \o (IF readonly THEN "readonly " ELSE "") \o ToStr(Str(field, "name"))
       \o (IF Flag(field, "required") THEN "" ELSE "?")
       \o ": " \o fieldToTypeScript(field) \o ";"

generateInterfaceLines(model, options) ==
  LET includeComments == Opt(options, "includeComments", TRUE)
      deps == collectTypeDependencies(model, Opt(options, "allEnums", <<>>))
      imports ==
        IF Opt(options, "standalone", FALSE)
          THEN (IF Len(deps.enums) > 0
                  THEN <<"import { " \o JoinStr(deps.enums, ", ") \o " } from './enums';">>
                  ELSE <<>>)
               \o [i \in 1..Len(deps.models) |->
                     "import type { " \o deps.models[i] \o " } from './"
                        \o deps.models[i] \o "';"]
               \o (IF Len(deps.enums) > 0 \/ Len(deps.models) > 0 THEN <<"">> ELSE <<>>)
          ELSE <<>>
      description ==
        IF includeComments /\ Truthy(Str(model, "description"))
          THEN <<"/**", " * " \o model.description, " */">> ELSE <<>>
      generated ==
        IF includeComments
          THEN <<"/** Auto-generated from " \o ToStr(Str(model, "source")) \o " schema */">>
          ELSE <<>>
      fieldLines ==
        Flatten([i \in 1..Len(model.fields) |->
                   (IF includeComments /\ Truthy(Str(model.fields[i], "description"))
                      THEN <<"  /** " \o model.fields[i].description \o " */">> ELSE <<>>)
                   \o <<fieldLine(model.fields[i], Opt(options, "readonly", FALSE))>>])
  IN imports \o description \o generated
     \o <<Opt(options, "exportType", "export") \o " interface "
            \o ToStr(Str(model, "modelName")) \o " {">>
     \o fieldLines \o <<"}">>

generateInterface(model, options) == JoinStr(generateInterfaceLines(model, options), "\n")

\* generateTypes of the generator module (the orchestrator has one of the same name)
generatorGenerateTypes(models, options) ==
  JoinStr([i \in 1..Len(models) |-> generateInterface(models[i], options)], "\n\n")

\* Prettier is an external formatter; with TYPEBRIDGE_SKIP_FORMAT=1 (and under
\* the test runner) formatCode returns its argument.
formatCode(code) == code

\* `now` is the reading of the clock, new Date().toISOString()
generateTypeScriptFile(models, options, now) ==
  LET enums == Opt(options, "enums", <<>>)
      parts ==
        (IF Opt(options, "includeHeader", TRUE)
           THEN <<"/**", " * AUTO-GENERATED by type-bridge", " * Do not edit manually",
                  " * Generated: " \o now, " */", "">>
           ELSE <<>>)
        \o (IF Truthy(Opt(options, "banner", null))
              THEN <<"/* " \o options.banner \o " */", "">> ELSE <<>>)
        \o (IF Len(enums) > 0
              THEN <<JoinStr([i \in 1..Len(enums) |-> generateEnum(enums[i], options)], "\n\n"),
                     "">>
              ELSE <<>>)
        \o <<generatorGenerateTypes(models, options)>>
  IN formatCode(JoinStr(parts, "\n"))

generateEnumsFile(enums, options) ==
  JoinStr(<<"/**", " * AUTO-GENERATED by type-bridge", " * Enum definitions", " */", "">>
          \o Flatten([i \in 1..Len(enums) |->
                        (IF i - 1 > 0 THEN <<"">> ELSE <<>>)
                        \o <<generateEnum(enums[i], options)>>]),
          "\n")

generateIndexFile(modelNames, enums) ==
  JoinStr(<<"/**", " * AUTO-GENERATED by type-bridge", " * Type exports", " */", "">>
          \o (IF Len(enums) > 0
                THEN <<"export { " \o JoinStr([i \in 1..Len(enums) |-> enums[i].name], ", ")
                          \o " } from './enums';", "">>
                ELSE <<>>)
          \o [i \in 1..Len(modelNames) |->
                "export type { " \o modelNames[i] \o " } from './" \o modelNames[i] \o "';"],
          "\n")

(***************************************************************************)
(* Strings, as the regular expressions of the Prisma adapter read them     *)
(***************************************************************************)
CharAt(s, i) == SubSeq(s, i, i)

\* \w
wordChars ==
  {"a", "b", "c", "d", "e", "f", "g", "h", "i", "j", "k", "l", "m", "n", "o", "p",
   "q", "r", "s", "t", "u", "v", "w", "x", "y", "z",
   "A", "B", "C", "D", "E", "F", "G", "H", "I", "J", "K", "L", "M", "N", "O", "P",
   "Q", "R", "S", "T", "U", "V", "W", "X", "Y", "Z",
   "0", "1", "2", "3", "4", "5", "6", "7", "8", "9", "_"}
\* \s
spaceChars == {" ", "\t", "\n", "\r"}
\* [\w[\]]
typeChars == wordChars \cup {"[", "]"}

Min(set) == CHOOSE m \in set : \A n \in set : m <= n
Max(set) == CHOOSE m \in set : \A n \in set : m >= n

\* the length of the longest run of characters of class that starts at s[i]
RunLen(s, i, class) ==
  LET stops == {j \in i..Len(s) : CharAt(s, j) \notin class}
  IN (IF stops = {} THEN Max({i, Len(s) + 1}) ELSE Min(stops)) - i

\* the length of the longest run of characters of class that ends at s[i]
RunLenBack(s, i, class) ==
  LET stops == {j \in 1..i : CharAt(s, j) \notin class}
  IN i - (IF stops = {} THEN 0 ELSE Max(stops))

\* String.prototype.trim
Trim(s) ==
  LET lead == RunLen(s, 1, spaceChars)
      trail == RunLenBack(s, Len(s), spaceChars)
  IN IF lead = Len(s) THEN "" ELSE SubSeq(s, lead + 1, Len(s) - trail)

\* String.prototype.indexOf(part, i), 1-based; 0 when there is none
IndexFrom(s, part, i) ==
  LET hits == {j \in i..(Len(s) - Len(part) + 1) : SubSeq(s, j, j + Len(part) - 1) = part}
  IN IF hits = {} THEN 0 ELSE Min(hits)

RECURSIVE SplitFrom(_, _, _)
SplitFrom(s, sep, i) ==
  LET j == IndexFrom(s, sep, i)
  IN IF j = 0 THEN <<SubSeq(s, i, Len(s))>>
     ELSE <<SubSeq(s, i, j - 1)>> \o SplitFrom(s, sep, j + Len(sep))
\* String.prototype.split
Split(s, sep) == SplitFrom(s, sep, 1)

\* An attempt to match  keyword\s+(\w+)  at s[i]: [end, name], end = 0 for no match,
\* else the position after the match.  Both runs are greedy and what follows a
\* shorter run could not match, so the longest runs are the only match.
matchKeywordName(s, keyword, i) ==
  LET afterKeyword == i + Len(keyword)
      spaces == RunLen(s, afterKeyword, spaceChars)
      nameLen == RunLen(s, afterKeyword + spaces, wordChars)
  IN IF i >= 1 /\ StartsWith(SubSeq(s, i, Len(s)), keyword) /\ spaces >= 1 /\ nameLen >= 1
       THEN [end |-> afterKeyword + spaces + nameLen,
             name |-> SubSeq(s, afterKeyword + spaces, afterKeyword + spaces + nameLen - 1)]
       ELSE [end |-> 0, name |-> ""]

RECURSIVE searchKeywordName(_, _, _)
\* str.match(/keyword\s+(\w+)/): the name of the leftmost match, <<>> for null
searchKeywordName(s, keyword, i) ==
  LET at == IndexFrom(s, keyword, i)
  IN IF at = 0 THEN <<>>
     ELSE IF matchKeywordName(s, keyword, at).end # 0
       THEN <<matchKeywordName(s, keyword, at).name>>
     ELSE searchKeywordName(s, keyword, at + 1)

RECURSIVE matchBlocks(_, _, _)
\* content.match(/keyword\s+(\w+)\s*\{[\s\S]*?\}/g) || [], from position i on:
\* after the name and optional spaces comes "{", and the lazy [\s\S]*? stops
\* at the first "}" that follows it.
matchBlocks(content, keyword, i) ==
  LET at == IndexFrom(content, keyword, i)
      head == matchKeywordName(content, keyword, at)
      open == head.end + RunLen(content, head.end, spaceChars)
      close == IndexFrom(content, "}", open + 1)
  IN IF at = 0 THEN <<>>
     ELSE IF head.end # 0 /\ open <= Len(content) /\ CharAt(content, open) = "{"
             /\ close # 0
       THEN <<SubSeq(content, at, close)>> \o matchBlocks(content, keyword, close + 1)
     ELSE matchBlocks(content, keyword, at + 1)

(***************************************************************************)
(* parsers/prisma-parser.js                                                *)
(***************************************************************************)
PRISMA_TYPE_MAP ==
  [String |-> STANDARD_TYPES.STRING, Int |-> STANDARD_TYPES.NUMBER,
   Float |-> STANDARD_TYPES.NUMBER, Boolean |-> STANDARD_TYPES.BOOLEAN,
   DateTime |-> STANDARD_TYPES.DATE, Json |-> "Record<string, unknown>",
   Bytes |-> STANDARD_TYPES.STRING, Decimal |-> STANDARD_TYPES.NUMBER,
   BigInt |-> STANDARD_TYPES.NUMBER]

RECURSIVE matchDefault(_, _)
\* attributes.match(/@default\(([^)]+)\)/): the captured group, null for no match
matchDefault(attributes, i) ==
  LET at == IndexFrom(attributes, "@default(", i)
      start == at + Len("@default(")
      close == IndexFrom(attributes, ")", start)
  IN IF at = 0 THEN null
     ELSE IF close > start THEN SubSeq(attributes, start, close - 1)
     ELSE matchDefault(attributes, at + 1)

\* line.match(/^(\w+)\s+([\w[\]]+)(\?)?(.*)$/): <<>> for null, else the groups
\* <<[name, typeStr, optional, attributes]>>.  Each run is greedy and the rest of
\* the pattern accepts whatever follows the longest runs.
fieldMatch(line) ==
  Bind(RunLen(line, 1, wordChars), LAMBDA nameLen :
  Bind(RunLen(line, nameLen + 1, spaceChars), LAMBDA spaces :
  Bind(RunLen(line, nameLen + spaces + 1, typeChars), LAMBDA typeLen :
  Bind(nameLen + spaces + typeLen + 1, LAMBDA afterType :
  Bind(afterType <= Len(line) /\ CharAt(line, afterType) = "?", LAMBDA optional :
    IF nameLen >= 1 /\ spaces >= 1 /\ typeLen >= 1
      THEN <<[name |-> SubSeq(line, 1, nameLen),
              typeStr |-> SubSeq(line, nameLen + spaces + 1, afterType - 1),
              optional |-> optional,
              attributes |-> SubSeq(line, IF optional THEN afterType + 1 ELSE afterType,
                                    Len(line))]>>
      ELSE <<>>)))))

\* the field object parseField builds from the groups of fieldMatch
fieldOfMatch(name, typeStr, optional, attributes) ==
  Bind(EndsWith(typeStr, "[]"), LAMBDA isArray :
  Bind(IF isArray THEN SubSeq(typeStr, 1, Len(typeStr) - 2) ELSE typeStr, LAMBDA baseType :
  Bind(IF baseType \in DOMAIN PRISMA_TYPE_MAP THEN PRISMA_TYPE_MAP[baseType] ELSE baseType,
       LAMBDA mappedType :
  Bind(Includes(attributes, "@id"), LAMBDA isPrimary :
  Bind(baseType \notin DOMAIN PRISMA_TYPE_MAP /\ ~isArray, LAMBDA isReference :
    [name |-> name,
     type |-> IF isArray THEN STANDARD_TYPES.ARRAY ELSE mappedType,
     required |-> ~optional /\ ~isPrimary,
     isPrimary |-> isPrimary,
     isArray |-> isArray,
     arrayOf |-> IF isArray THEN mappedType ELSE null,
     isReference |-> isReference,
     referenceTo |-> IF isReference THEN baseType ELSE null,
     defaultValue |-> matchDefault(attributes, 1),
     isUnique |-> Includes(attributes, "@unique")])))))

\* parseField returns <<>> for null and <<field>> for a field.
parseField(rawLine) ==
  Bind(Trim(rawLine), LAMBDA line :
    IF line = "" \/ StartsWith(line, "//") \/ StartsWith(line, "@@") THEN <<>>
    ELSE Bind(fieldMatch(line), LAMBDA m :
           IF m = <<>> THEN <<>>
           ELSE <<fieldOfMatch(m[1].name, m[1].typeStr, m[1].optional, m[1].attributes)>>))

\* parseModel returns <<>> for null and <<model>> for a model
parseModel(modelBlock, filePath) ==
  LET lines == Split(modelBlock, "\n")
      modelNameMatch == searchKeywordName(lines[1], "model", 1)
      fields == Flatten([i \in 1..(Len(lines) - 2) |-> parseField(lines[i + 1])])
  IN IF modelNameMatch = <<>> THEN <<>>
     ELSE <<normalizeModel([modelName |-> modelNameMatch[1], fields |-> fields,
                            source |-> "prisma", filePath |-> filePath])>>

\* parseEnum returns <<>> for null and <<enum>> for an enum
parseEnum(enumBlock) ==
  LET nameMatch == searchKeywordName(enumBlock, "enum", 1)
      lines == Split(enumBlock, "\n")
      isValue(line) ==
        LET trimmed == Trim(line)
        IN trimmed # "" /\ ~StartsWith(trimmed, "//") /\ ~StartsWith(trimmed, "enum")
           /\ ~Includes(trimmed, "{") /\ ~Includes(trimmed, "}")
      values == Flatten([i \in 1..Len(lines) |->
                           IF isValue(lines[i]) THEN <<Trim(lines[i])>> ELSE <<>>])
  IN IF nameMatch = <<>> THEN <<>>
     ELSE <<[name |-> nameMatch[1], values |-> values, type |-> "enum"]>>

\* parsePrismaSchema on the content read from schemaPath
parsePrismaSchema(content, schemaPath) ==
  LET modelBlocks == matchBlocks(content, "model", 1)
      enumBlocks == matchBlocks(content, "enum", 1)
  IN [models |-> Flatten([i \in 1..Len(modelBlocks) |->
                            parseModel(modelBlocks[i], schemaPath)]),
      enums |-> Flatten([i \in 1..Len(enumBlocks) |-> parseEnum(enumBlocks[i])])]

(***************************************************************************)
(* parsers/mongoose-parser.js                                              *)
(*                                                                         *)
(* A schema definition is a runtime value: a constructor function, a       *)
(* string, a boolean, an array, or an object (its entries in insertion     *)
(* order).                                                                 *)
(***************************************************************************)
jsUndefined == [k |-> "undefined"]
jsFunction(name) == [k |-> "function", name |-> name]
jsString(s) == [k |-> "string", s |-> s]
jsBoolean(b) == [k |-> "boolean", b |-> b]
jsArray(items) == [k |-> "array", items |-> items]
jsObject(entries) == [k |-> "object", entries |-> entries]
entry(key, val) == [key |-> key, val |-> val]

\* typeof v === 'object' for a non-null v (arrays included)
IsObject(v) == v.k \in {"object", "array"}
\* key in v
HasProp(v, key) ==
  v.k = "object" /\ \E i \in 1..Len(v.entries) : v.entries[i].key = key
\* v.key
Prop(v, key) ==
  IF HasProp(v, key)
    THEN v.entries[CHOOSE i \in 1..Len(v.entries) : v.entries[i].key = key].val
    ELSE jsUndefined
\* truthiness of a value
JsTruthy(v) ==
  CASE v.k = "undefined" -> FALSE
    [] v.k = "boolean" -> v.b
    [] v.k = "string" -> v.s # ""
    [] OTHER -> TRUE
\* v === true
IsTrue(v) == v.k = "boolean" /\ v.b

MONGOOSE_TYPE_MAP ==
  ("String" :> STANDARD_TYPES.STRING) @@ ("Number" :> STANDARD_TYPES.NUMBER)
  @@ ("Boolean" :> STANDARD_TYPES.BOOLEAN) @@ ("Date" :> STANDARD_TYPES.DATE)
  @@ ("Buffer" :> STANDARD_TYPES.STRING) @@ ("ObjectId" :> STANDARD_TYPES.STRING)
  @@ ("Mixed" :> "Record<string, any>") @@ ("Decimal128" :> STANDARD_TYPES.NUMBER)
  @@ ("Map" :> STANDARD_TYPES.OBJECT)
  @@ ("Schema.Types.String" :> STANDARD_TYPES.STRING)
  @@ ("Schema.Types.Number" :> STANDARD_TYPES.NUMBER)
  @@ ("Schema.Types.Boolean" :> STANDARD_TYPES.BOOLEAN)
  @@ ("Schema.Types.Date" :> STANDARD_TYPES.DATE)
  @@ ("Schema.Types.ObjectId" :> STANDARD_TYPES.STRING)
  @@ ("Schema.Types.Mixed" :> "Record<string, any>")
  @@ ("Schema.Types.Decimal128" :> STANDARD_TYPES.NUMBER)
  @@ ("Schema.Types.Map" :> STANDARD_TYPES.OBJECT)

\* MONGOOSE_TYPE_MAP[typeName] || STANDARD_TYPES.ANY
mongooseType(typeName) ==
  IF typeName \in DOMAIN MONGOOSE_TYPE_MAP THEN MONGOOSE_TYPE_MAP[typeName]
  ELSE STANDARD_TYPES.ANY

\* { key: obj.key } when obj has the key, nothing otherwise (obj.key is undefined)
Copy(obj, key) == IF key \in DOMAIN obj THEN key :> obj[key] ELSE <<>>

RECURSIVE extractFieldType(_)
\* The result is an object with exactly the keys the taken branch sets.
extractFieldType(fieldDef) ==
  IF fieldDef.k = "array" THEN
    IF Len(fieldDef.items) = 0
      THEN [type |-> STANDARD_TYPES.ARRAY, isArray |-> TRUE, arrayOf |-> STANDARD_TYPES.ANY]
      ELSE LET innerType == extractFieldType(fieldDef.items[1])
           IN [type |-> STANDARD_TYPES.ARRAY, isArray |-> TRUE, arrayOf |-> innerType.type]
              @@ Copy(innerType, "isReference") @@ Copy(innerType, "referenceTo")
  ELSE IF fieldDef.k = "object" /\ JsTruthy(Prop(fieldDef, "type")) THEN
    LET typeInfo == extractFieldType(Prop(fieldDef, "type"))
    IN IF JsTruthy(Prop(fieldDef, "ref"))
         THEN [isReference |-> TRUE, referenceTo |-> Prop(fieldDef, "ref").s] @@ typeInfo
         ELSE typeInfo
  ELSE IF fieldDef.k = "object" /\ JsTruthy(Prop(fieldDef, "enum")) THEN
    [type |-> STANDARD_TYPES.STRING, isEnum |-> TRUE,
     enumValues |-> <<[i \in 1..Len(Prop(fieldDef, "enum").items) |->
                         Prop(fieldDef, "enum").items[i].s]>>]
  ELSE IF fieldDef.k = "function" THEN
    [type |-> mongooseType(fieldDef.name), isReference |-> FALSE]
  ELSE IF fieldDef.k = "string" THEN
    [type |-> mongooseType(fieldDef.s), isReference |-> FALSE]
  ELSE [type |-> STANDARD_TYPES.ANY, isReference |-> FALSE]

RECURSIVE parseSchemaFields(_, _)
\* schemaPaths is given by the set of the path names whose isRequired is set
parseSchemaFields(schemaObj, schemaPaths) ==
  LET field(fieldName, fieldDef) ==
        LET typeInfo == extractFieldType(fieldDef)
            required ==
              \/ IsObject(fieldDef) /\ IsTrue(Prop(fieldDef, "required"))
              \/ fieldName \in schemaPaths
            defaultValue ==
              IF HasProp(fieldDef, "default") /\ Prop(fieldDef, "default").k = "string"
                THEN Prop(fieldDef, "default").s ELSE null
            isUnique == IsObject(fieldDef) /\ IsTrue(Prop(fieldDef, "unique"))
            nested ==
              IF fieldDef.k = "object" /\ ~JsTruthy(Prop(fieldDef, "type"))
                 /\ ~JsTruthy(Prop(fieldDef, "enum"))
                THEN <<parseSchemaFields(fieldDef, {})>> ELSE <<>>
            isEnumArray == Flag(typeInfo, "isArray") /\ Flag(typeInfo, "isEnum")
        IN [name |-> fieldName,
            type |-> IF nested # <<>> THEN STANDARD_TYPES.OBJECT ELSE typeInfo.type,
            required |-> required,
            isArray |-> Flag(typeInfo, "isArray"),
            arrayOf |-> OrNull(Str(typeInfo, "arrayOf")),
            isReference |-> Flag(typeInfo, "isReference"),
            referenceTo |-> OrNull(Str(typeInfo, "referenceTo")),
            isEnum |-> Flag(typeInfo, "isEnum"),
            isEnumArray |-> isEnumArray,
            enumValues |-> List(typeInfo, "enumValues"),
            defaultValue |-> defaultValue,
            isUnique |-> isUnique,
            nested |-> nested]
  IN Flatten([i \in 1..Len(schemaObj.entries) |->
                IF StartsWith(schemaObj.entries[i].key, "_") THEN <<>>
                ELSE <<field(schemaObj.entries[i].key, schemaObj.entries[i].val)>>])

upperCase ==
  [c \in wordChars |->
     CASE c = "a" -> "A" [] c = "b" -> "B" [] c = "c" -> "C" [] c = "d" -> "D"
       [] c = "e" -> "E" [] c = "f" -> "F" [] c = "g" -> "G" [] c = "h" -> "H"
       [] c = "i" -> "I" [] c = "j" -> "J" [] c = "k" -> "K" [] c = "l" -> "L"
       [] c = "m" -> "M" [] c = "n" -> "N" [] c = "o" -> "O" [] c = "p" -> "P"
       [] c = "q" -> "Q" [] c = "r" -> "R" [] c = "s" -> "S" [] c = "t" -> "T"
       [] c = "u" -> "U" [] c = "v" -> "V" [] c = "w" -> "W" [] c = "x" -> "X"
       [] c = "y" -> "Y" [] c = "z" -> "Z" [] OTHER -> c]

\* path.basename(filePath, path.extname(filePath)) of a file name without directories
basename(filePath) ==
  LET dots == {i \in 2..Len(filePath) : CharAt(filePath, i) = "."}
  IN IF dots = {} THEN filePath ELSE SubSeq(filePath, 1, Max(dots) - 1)

\* A file of the models directory is [path, exports]: exports is <<>> when require
\* throws or nothing that is exported is a model or a schema, <<exp>> for the first
\* recognizable export: [modelName, schema] of a model (modelName is null for a bare
\* schema), schema = [obj, paths].  The result is <<>> for null.
extractSchemaFromFile(file) ==
  IF file.exports = <<>> THEN <<>>
  ELSE LET exp == file.exports[1]
       IN IF Truthy(exp.modelName)
            THEN <<[modelName |-> exp.modelName, schema |-> exp.schema]>>
            ELSE LET modelName == basename(file.path)
                 IN <<[modelName |-> (IF modelName = "" THEN ""
                                      ELSE IF CharAt(modelName, 1) \in wordChars
                                        THEN upperCase[CharAt(modelName, 1)]
                                      ELSE CharAt(modelName, 1))
                                     \o SubSeq(modelName, 2, Len(modelName)),
                        schema |-> exp.schema]>>

parseMongooseModel(file) ==
  LET extracted == extractSchemaFromFile(file)
  IN IF extracted = <<>> THEN <<>>
     ELSE <<normalizeModel([modelName |-> extracted[1].modelName,
                            fields |-> parseSchemaFields(extracted[1].schema.obj,
                                                         extracted[1].schema.paths),
                            source |-> "mongoose",
                            filePath |-> file.path])>>

\* files: what findMongooseModels found in the directory, in the order of the glob
parseMongooseModels(files) ==
  Flatten([i \in 1..Len(files) |-> parseMongooseModel(files[i])])

(***************************************************************************)
(* core/normalizer.js: validation and reference analysis                   *)
(***************************************************************************)
validateSchema(schema) ==
  LET fieldErrors(index) ==
        (IF ~Truthy(Str(schema.fields[index + 1], "name"))
           THEN <<"Field at index " \o ToString(index) \o " must have a name">> ELSE <<>>)
        \o (IF ~Truthy(Str(schema.fields[index + 1], "type"))
              THEN <<"Field \"" \o ToStr(Str(schema.fields[index + 1], "name"))
                       \o "\" must have a type">>
              ELSE <<>>)
      errors ==
        (IF ~Truthy(Str(schema, "modelName")) THEN <<"Model must have a name">> ELSE <<>>)
        \o Flatten([i \in 1..Len(schema.fields) |-> fieldErrors(i - 1)])
  IN [valid |-> Len(errors) = 0, errors |-> errors]

\* modelMap.get(name): of the models of that name the Map keeps the last; <<>> for none
modelMapGet(models, name) ==
  LET at == {i \in 1..Len(models) : models[i].modelName = name}
  IN IF at = {} THEN <<>> ELSE <<models[Max(at)]>>

\* path.includes(name) that looks at the path only once it is longer than three
\* names
PathIncludesLate(path, name) ==
  Len(path) > 3 /\ \E i \in 1..Len(path) : path[i] = name

\* path.includes(name)
PathIncludes(path, name) == \E i \in 1..Len(path) : path[i] = name

RECURSIVE hasCycle(_, _, _, _, _)
RECURSIVE hasCycleFields(_, _, _, _, _, _)

\* hasCycle pushes to circularPaths as it goes: the operator takes the list and
\* returns [found, circularPaths, depth], the returned boolean, the list afterwards
\* and the depth of the deepest activation of hasCycle the call led to.  The
\* activations nest as the path grows: the call made with a path of d names is
\* the d-th activation on the stack.
hasCycle(models, currentModel, targetModel, path, circularPaths) ==
  IF currentModel = targetModel /\ Len(path) = 0
    THEN [found |-> FALSE, circularPaths |-> circularPaths, depth |-> Len(path)]
  ELSE IF PathIncludes(path, targetModel)
    THEN [found |-> TRUE,
          circularPaths |-> Append(circularPaths, JoinStr(Append(path, targetModel), " -> ")),
          depth |-> Len(path)]
  ELSE IF modelMapGet(models, targetModel) = <<>>
    THEN [found |-> FALSE, circularPaths |-> circularPaths, depth |-> Len(path)]
  ELSE hasCycleFields(models, modelMapGet(models, targetModel)[1].fields, 1, targetModel,
                      Append(path, targetModel), circularPaths)

\* the loop `for (const field of model.fields)` of hasCycle, from field i on
hasCycleFields(models, fields, i, targetModel, newPath, circularPaths) ==
  IF i > Len(fields)
    THEN [found |-> FALSE, circularPaths |-> circularPaths, depth |-> Len(newPath) - 1]
  ELSE IF Flag(fields[i], "isReference") /\ Truthy(Str(fields[i], "referenceTo"))
    THEN Bind(hasCycle(models, targetModel, fields[i].referenceTo, newPath, circularPaths),
              LAMBDA r :
           IF r.found THEN r
           ELSE Bind(hasCycleFields(models, fields, i + 1, targetModel, newPath,
                                    r.circularPaths),
                     LAMBDA rest : [rest EXCEPT !.depth = Max({r.depth, rest.depth})]))
  ELSE hasCycleFields(models, fields, i + 1, targetModel, newPath, circularPaths)

RECURSIVE checkFields(_, _, _, _)
\* the inner loop of "Check all models for circular references", from field i on
checkFields(models, model, i, circularPaths) ==
  IF i > Len(model.fields) THEN circularPaths
  ELSE IF Flag(model.fields[i], "isReference") /\ Truthy(Str(model.fields[i], "referenceTo"))
    THEN checkFields(models, model, i + 1,
                     hasCycle(models, model.modelName, model.fields[i].referenceTo,
                              <<model.modelName>>, circularPaths).circularPaths)
  ELSE checkFields(models, model, i + 1, circularPaths)

RECURSIVE checkModels(_, _, _)
\* the outer loop, from model m on
checkModels(models, m, circularPaths) ==
  IF m > Len(models) THEN circularPaths
  ELSE checkModels(models, m + 1, checkFields(models, models[m], 1, circularPaths))

RECURSIVE Unique(_)
\* [...new Set(list)]
Unique(list) ==
  IF list = <<>> THEN <<>>
  ELSE SetAdd(Unique(SubSeq(list, 1, Len(list) - 1)), list[Len(list)])

detectCircularReferences(models) ==
  LET circularPaths == checkModels(models, 1, <<>>)
  IN [hasCircular |-> Len(circularPaths) > 0, circularPaths |-> Unique(circularPaths)]

\* markSelfReferences patching the marked field beyond its isSelfReference
\* attribute: the self-reference is made optional as well
markSelfReferencesOptional(models) ==
  [m \in 1..Len(models) |->
     [models[m] EXCEPT !.fields =
        [f \in 1..Len(models[m].fields) |->
           IF Flag(models[m].fields[f], "isReference")
              /\ Str(models[m].fields[f], "referenceTo") = models[m].modelName
             THEN [isSelfReference |-> TRUE, required |-> FALSE] @@ models[m].fields[f]
             ELSE models[m].fields[f]]]]

markSelfReferences(models) ==
  [m \in 1..Len(models) |->
     [models[m] EXCEPT !.fields =
        [f \in 1..Len(models[m].fields) |->
           IF Flag(models[m].fields[f], "isReference")
              /\ Str(models[m].fields[f], "referenceTo") = models[m].modelName
             THEN [isSelfReference |-> TRUE] @@ models[m].fields[f]
             ELSE models[m].fields[f]]]]

(***************************************************************************)
(* core/generator.js: the orchestrator                                     *)
(*                                                                         *)
(* A project on disk is [schema, packageJson, modelFiles]: the content of  *)
(* schema.prisma (null when none of the common paths has one), the         *)
(* dependencies named by package.json (<<>> when there is no package.json, *)
(* <<deps>> otherwise) and the files the glob finds under the models       *)
(* directory.                                                              *)
(***************************************************************************)
schemaPathOf == "prisma/schema.prisma"

findPrismaSchema(project) == IF project.schema = null THEN null ELSE schemaPathOf

detectPrisma(project) ==
  IF findPrismaSchema(project) # null THEN TRUE
  ELSE IF project.packageJson # <<>>
    THEN "prisma" \in project.packageJson[1] \/ "@prisma/client" \in project.packageJson[1]
  ELSE FALSE

detectMongoose(project) ==
  project.packageJson # <<>> /\ "mongoose" \in project.packageJson[1]

detectORM(project) ==
  IF detectPrisma(project) THEN "prisma"
  ELSE IF detectMongoose(project) THEN "mongoose"
  ELSE null

\* what another process writes to the schema file while a run is executing
editedSchema ==
  "model C {\n  id String @id @default(cuid())\n}\n\nenum Status {\n  ON\n  OFF\n}\n"

\* fs.readFile(schemaPath, 'utf-8'): the content of the schema file now, which is
\* project.schema until another process has rewritten the file
readSchema(project) == IF project.rewritten THEN editedSchema ELSE project.schema

\* parseSchemas either throws (threw, with the message) or returns {models, enums}
parseSchemas(orm, project) ==
  IF orm = "prisma" THEN
    IF findPrismaSchema(project) = null
      THEN [threw |-> TRUE, message |-> "Prisma schema file not found",
            models |-> <<>>, enums |-> <<>>]
      ELSE [threw |-> FALSE, message |-> ""]
           @@ parsePrismaSchema(readSchema(project), findPrismaSchema(project))
  ELSE IF orm = "mongoose" THEN
    [threw |-> FALSE, message |-> "",
     models |-> parseMongooseModels(project.modelFiles), enums |-> <<>>]
  ELSE [threw |-> TRUE, message |-> "Unsupported ORM: " \o ToStr(orm),
        models |-> <<>>, enums |-> <<>>]

validateModels(models) ==
  LET results == [i \in 1..Len(models) |->
                    [modelName |-> Str(models[i], "modelName")] @@ validateSchema(models[i])]
      invalid == Filter(results, LAMBDA r : ~r.valid)
  IN [valid |-> Len(invalid) = 0, total |-> Len(models), invalid |-> Len(invalid),
      errors |-> invalid]

\* const { projectRoot, outputPath, outputMode, ...options } = config
restOptions(config) ==
  [key \in DOMAIN config \ {"projectRoot", "outputPath", "outputMode"} |-> config[key]]

generateTypesForModels(models, options) ==
  [i \in 1..Len(models) |->
     [generatedCode |-> generateInterface(models[i], options)] @@ models[i]]

\* path.join(dir, name) for a plain relative dir
pathJoin(dir, name) == dir \o "/" \o name

(***************************************************************************)
(* Inputs                                                                  *)
(***************************************************************************)
MaxModels == 2
MaxPrismaFields == 2
MaxSchemaFields == 1
MaxBatchFields == 2

ModelNames == <<"A", "B", "C">>

RECURSIVE SubsetsUpTo(_, _)
\* the subsets of set with at most k elements
SubsetsUpTo(set, k) ==
  IF k = 0 THEN {{}}
  ELSE LET smaller == SubsetsUpTo(set, k - 1)
       IN smaller \cup {S \cup {x} : S \in smaller, x \in set}

\* the entries pool[l] with <<m, l>> chosen, in the order of the pool
Chosen(pool, m, chosen) ==
  Flatten([l \in 1..Len(pool) |-> IF <<m, l>> \in chosen THEN <<pool[l]>> ELSE <<>>])

\* the field lines a model of a schema of n models may have
prismaLines(n) ==
  <<"id String @id @default(cuid())">>
  \o Flatten([t \in 1..n |->
                <<"ref" \o ModelNames[t] \o " " \o ModelNames[t],
                  "refs" \o ModelNames[t] \o "  " \o ModelNames[t] \o "[]">>])

enumBlock == "enum Role {\n  USER\n  ADMIN\n}\n"

\* the text of a schema of n models, model m having the chosen lines
prismaSchema(n, chosen) ==
  "// schema\n"
  \o JoinStr([m \in 1..n |->
                "model " \o ModelNames[m] \o " {\n"
                \o JoinStr([l \in 1..Len(Chosen(prismaLines(n), m, chosen)) |->
                              "  " \o Chosen(prismaLines(n), m, chosen)[l] \o "\n"], "")
                \o "}\n"], "\n")
  \o enumBlock

\* a schema whose model has a field of the enum's type
enumFieldSchema ==
  "model " \o ModelNames[1] \o " {\n  id String @id @default(cuid())\n  role Role\n}\n\n"
  \o enumBlock

\* a model block of one @id field, closed or left without its closing brace
idBlock(head, closed) ==
  head \o " {\n  id String @id @default(cuid())\n" \o (IF closed THEN "}\n" ELSE "")

\* schemas with one block that cannot be parsed, followed by a well-formed model:
\* a block without a name, and a block without its closing brace
namelessBlockSchema == idBlock("model", TRUE) \o "\n" \o idBlock("model " \o ModelNames[2], TRUE)
unclosedBlockSchema ==
  idBlock("model " \o ModelNames[1], FALSE) \o "\n" \o idBlock("model " \o ModelNames[2], TRUE)

\* a schema that declares the same model twice
duplicateModelSchema ==
  idBlock("model " \o ModelNames[1], TRUE) \o "\n" \o idBlock("model " \o ModelNames[1], TRUE)

\* a schema whose model has a pair of braces inside a default-value attribute,
\* with a field line after it
nestedBraceSchema ==
  "model " \o ModelNames[1]
  \o " {\n  id String @id @default(cuid())\n  meta Json @default(\"{}\")\n  name String\n}\n"

\* a schema whose model has fields of the built-in types DateTime and Json
builtInTypesSchema ==
  "model " \o ModelNames[1]
  \o " {\n  id String @id @default(cuid())\n  at DateTime\n  on DateTime?\n"
  \o "  ats DateTime[]\n  meta Json\n}\n"

PrismaSchemas ==
  {"", enumFieldSchema, namelessBlockSchema, unclosedBlockSchema, duplicateModelSchema,
   nestedBraceSchema, builtInTypesSchema} \cup
  UNION {{prismaSchema(n, chosen) :
            chosen \in SubsetsUpTo((1..n) \X (1..Len(prismaLines(n))), MaxPrismaFields)} :
         n \in 0..MaxModels}

jsEnumXY == jsArray(<<jsString("x"), jsString("y")>>)

\* the entries the schema.obj of a model of a directory of n models may have
mongooseEntries(n) ==
  <<entry("name", jsFunction("String")),
    entry("title", jsObject(<<entry("type", jsFunction("String")),
                              entry("required", jsBoolean(TRUE))>>)),
    entry("role", jsObject(<<entry("type", jsFunction("String")), entry("enum", jsEnumXY),
                             entry("default", jsString("x"))>>)),
    entry("kind", jsObject(<<entry("enum", jsEnumXY)>>)),
    entry("tags", jsArray(<<jsObject(<<entry("type", jsFunction("String")),
                                       entry("enum", jsEnumXY)>>)>>)),
    entry("addr", jsObject(<<entry("street", jsFunction("String")),
                             entry("zip", jsObject(<<entry("type", jsFunction("String")),
                                                     entry("required", jsBoolean(TRUE))>>))>>)),
    entry("_v", jsFunction("Number")),
    entry("", jsFunction("String"))>>
  \o Flatten([t \in 1..n |->
                <<entry("ref" \o ModelNames[t],
                        jsObject(<<entry("type", jsString("ObjectId")),
                                   entry("ref", jsString(ModelNames[t]))>>)),
                  entry("refs" \o ModelNames[t],
                        jsArray(<<jsObject(<<entry("type", jsString("ObjectId")),
                                             entry("ref", jsString(ModelNames[t]))>>)>>))>>])

\* schema.paths marks the paths declared with required: true
requiredPaths(entries) ==
  {entries[i].key : i \in {j \in 1..Len(entries) :
                             IsTrue(Prop(entries[j].val, "required"))}}

lowerName == [A |-> "a", B |-> "b", C |-> "c"]

\* The files of a models directory of n models: the odd ones export a model
\* (mongoose.model(name, schema)), the even ones a bare schema, named by the file;
\* a file that cannot be loaded may come first.
mongooseFiles(n, chosen, broken) ==
  (IF broken THEN <<[path |-> "broken.js", exports |-> <<>>]>> ELSE <<>>)
  \o [m \in 1..n |->
        LET entries == Chosen(mongooseEntries(n), m, chosen)
        IN [path |-> lowerName[ModelNames[m]] \o ".js",
            exports |-> <<[modelName |-> IF m % 2 = 1 THEN ModelNames[m] ELSE null,
                           schema |-> [obj |-> jsObject(entries),
                                       paths |-> requiredPaths(entries)]]>>]]

\* the entries of a schema.obj with the built-in types Date and Mixed
builtInTypesEntries ==
  <<entry("at", jsFunction("Date")),
    entry("on", jsObject(<<entry("type", jsFunction("Date")),
                           entry("required", jsBoolean(TRUE))>>)),
    entry("ats", jsArray(<<jsFunction("Date")>>)),
    entry("span", jsObject(<<entry("from", jsFunction("Date"))>>)),
    entry("meta", jsFunction("Mixed"))>>

\* a models directory of one model with those entries
builtInTypesFiles ==
  <<[path |-> lowerName[ModelNames[1]] \o ".js",
     exports |-> <<[modelName |-> ModelNames[1],
                    schema |-> [obj |-> jsObject(builtInTypesEntries),
                                paths |-> requiredPaths(builtInTypesEntries)]]>>]>>

MongooseDirectories ==
  {builtInTypesFiles} \cup
  UNION {{mongooseFiles(n, chosen, broken) :
            chosen \in SubsetsUpTo((1..n) \X (1..Len(mongooseEntries(n))), MaxSchemaFields),
            broken \in BOOLEAN} :
         n \in 0..MaxModels}

Projects ==
  {[schema |-> schema, packageJson |-> <<{"prisma"}>>, modelFiles |-> <<>>,
    rewritten |-> FALSE] :
     schema \in PrismaSchemas}
  \cup {[schema |-> null, packageJson |-> <<{"mongoose"}>>, modelFiles |-> files,
          rewritten |-> FALSE] :
          files \in MongooseDirectories}
  \cup {[schema |-> null, packageJson |-> packageJson, modelFiles |-> <<>>,
          rewritten |-> FALSE] :
          packageJson \in {<<>>, <<{}>>, <<{"prisma"}>>, <<{"@prisma/client", "mongoose"}>>}}

Configs ==
  {[outputMode |-> "single", outputPath |-> "out"],
   [outputMode |-> "single", outputPath |-> "out/types.ts"],
   [outputMode |-> "single", outputPath |-> undefined],
   [outputMode |-> "separate", outputPath |-> "out"],
   [outputMode |-> "separate", outputPath |-> "out", standalone |-> TRUE, orm |-> "mongoose"]}

\* the field objects a caller of the library may put in a model of a batch of n models
batchFields(n) ==
  <<[name |-> "s", type |-> "string"],
    [name |-> "o", type |-> "number", required |-> FALSE],
    [name |-> "e", type |-> "string", isEnum |-> TRUE, enumValues |-> <<<<"x", "y">>>>,
     required |-> TRUE],
    [name |-> "ea", type |-> "array", isArray |-> TRUE, arrayOf |-> "string",
     isEnum |-> TRUE, enumValues |-> <<<<"x", "y">>>>, required |-> TRUE],
    [name |-> "eb", type |-> "array", isArray |-> TRUE, arrayOf |-> "string",
     isEnumArray |-> TRUE, enumValues |-> <<<<"x", "y">>>>, required |-> FALSE],
    [name |-> "n", type |-> "object", required |-> TRUE,
     nested |-> <<<<[name |-> "x", type |-> "string"],
                    [name |-> "y", type |-> "number", required |-> FALSE],
                    [name |-> "z", type |-> "boolean", required |-> TRUE]>>>>],
    [name |-> "m", type |-> "object", required |-> FALSE,
     nested |-> <<<<[name |-> "e", type |-> "string", isEnum |-> TRUE,
                     enumValues |-> <<<<"x", "y">>>>, required |-> FALSE]>>>>],
    [name |-> "u", type |-> "", required |-> FALSE, isArray |-> FALSE, arrayOf |-> "",
     referenceTo |-> null, description |-> ""],
    [name |-> "w", type |-> "object", required |-> TRUE,
     nested |-> <<<<[name |-> "r", type |-> ModelNames[2], isReference |-> TRUE,
                     referenceTo |-> ModelNames[2], required |-> TRUE]>>>>]>>
  \o Flatten([t \in 1..n |->
                <<[name |-> "ref" \o ModelNames[t], type |-> ModelNames[t],
                   isReference |-> TRUE, referenceTo |-> ModelNames[t]],
                  [name |-> "refs" \o ModelNames[t], type |-> "array", isArray |-> TRUE,
                   arrayOf |-> ModelNames[t], required |-> FALSE]>>])

\* a batch of models that hold singular references only: model m refers to the
\* names targets[m], in that order
referenceBatch(targets) ==
  [m \in 1..Len(targets) |->
     [modelName |-> ModelNames[m],
      fields |-> [k \in 1..Len(targets[m]) |->
                    [name |-> "r" \o ToString(k), type |-> targets[m][k],
                     isReference |-> TRUE, referenceTo |-> targets[m][k]]]]]

\* a cycle through three models, each of which refers to itself first; a cycle
\* through two models, with a self-reference, two references to the same target
\* and references to a model outside the batch; two cycles that share a model
ReferenceBatches ==
  {referenceBatch(<<<<"A", "B">>, <<"B", "C">>, <<"C", "A">>>>),
   referenceBatch(<<<<"A", "B", "B", "X">>, <<"X", "A">>>>),
   referenceBatch(<<<<"B">>, <<"C", "A">>, <<"B">>>>)}

Batches ==
  ReferenceBatches \cup
  UNION {{[m \in 1..n |-> [modelName |-> ModelNames[m],
                           fields |-> Chosen(batchFields(n), m, chosen)]] :
            chosen \in SubsetsUpTo((1..n) \X (1..Len(batchFields(n))), MaxBatchFields)} :
         n \in 0..MaxModels}

(***************************************************************************)
(* State                                                                   *)
(*                                                                         *)
(* entryPoint "generateTypes": one run of the orchestrator over a project;  *)
(*           "library": a caller that hands a batch of models to the       *)
(*           exported functions of the normalizer and the generator        *)
(* pc        the position of the run / of the caller                       *)
(* written   the (path, content) pairs handed to the Writer so far, each   *)
(*           with the success the Writer reported for it                   *)
(* result    <<>> while the run has not returned, <<value>> afterwards     *)
(***************************************************************************)
VARIABLES entryPoint, project, config, batch, pc, orm, models, enums, circularCheck,
          validation, generatedModels, written, writeResult, result, clock

vars == <<entryPoint, project, config, batch, pc, orm, models, enums, circularCheck,
          validation, generatedModels, written, writeResult, result, clock>>

noCheck == [hasCircular |-> FALSE, circularPaths |-> <<>>]
noValidation == [valid |-> TRUE, total |-> 0, invalid |-> 0, errors |-> <<>>]
noProject == [schema |-> null, packageJson |-> <<>>, modelFiles |-> <<>>, rewritten |-> FALSE]
noConfig == [outputMode |-> "single", outputPath |-> undefined]

Init ==
  /\ \/ /\ entryPoint = "generateTypes"
        /\ project \in Projects
        /\ config \in Configs
        /\ batch = <<>>
        /\ pc = "detect"
     \/ /\ entryPoint = "library"
        /\ project = noProject
        /\ config = noConfig
        /\ batch \in Batches
        /\ pc = "call"
  /\ orm = null
  /\ models = <<>>
  /\ enums = <<>>
  /\ circularCheck = noCheck
  /\ validation = noValidation
  /\ generatedModels = <<>>
  /\ written = <<>>
  /\ writeResult = [success |-> TRUE]
  /\ result = <<>>
  /\ clock = 0

\* return { success: false, error }
Fail(error) ==
  /\ result' = <<[success |-> FALSE, error |-> error]>>
  /\ pc' = "done"

\* catch (error): return { success: false, error: error.message, stack: error.stack };
\* of the stack only its first line is kept, the frames are left out
Throw(message) ==
  /\ result' = <<[success |-> FALSE, error |-> message, stack |-> "Error: " \o message]>>
  /\ pc' = "done"

\* return { success: false, error: writeResult.error || 'Failed to write files',
\* writeResult } for a write result without an error text
FailWrite(result_) ==
  /\ result' = <<[success |-> FALSE, error |-> "Failed to write files",
                  writeResult |-> result_]>>
  /\ pc' = "done"

\* return { success: false, error: 'Schema validation failed', validation }
FailValidation(validation_) ==
  /\ result' = <<[success |-> FALSE, error |-> "Schema validation failed",
                  validation |-> validation_]>>
  /\ pc' = "done"

\* Step 1: detect the ORM
DetectORM ==
  /\ entryPoint = "generateTypes" /\ pc = "detect"
  /\ orm' = detectORM(project)
  /\ IF orm' = null
       THEN Fail("No supported ORM detected. Please install Prisma or Mongoose.")
       ELSE pc' = "parseModels" /\ result' = result
  /\ UNCHANGED <<entryPoint, project, config, batch, models, enums, circularCheck, validation,
                 generatedModels, written, writeResult, clock>>

\* Step 2, first call: let { models } = await parseSchemas(...)
ParseModels ==
  /\ entryPoint = "generateTypes" /\ pc = "parseModels"
  /\ Bind(parseSchemas(orm, project), LAMBDA parsed :
       IF parsed.threw
         THEN Throw(parsed.message) /\ models' = models
         ELSE models' = parsed.models /\ pc' = "parseEnums" /\ result' = result)
  /\ UNCHANGED <<entryPoint, project, config, batch, orm, enums, circularCheck, validation,
                 generatedModels, written, writeResult, clock>>

\* ParseEnums without the check for an empty model list: the run goes on to
\* analysis with no models
ParseEnumsUnchecked ==
  /\ entryPoint = "generateTypes" /\ pc = "parseEnums"
  /\ Bind(parseSchemas(orm, project), LAMBDA parsed :
       IF parsed.threw
         THEN Throw(parsed.message) /\ enums' = enums
         ELSE enums' = parsed.enums /\ pc' = "analyze" /\ result' = result)
  /\ UNCHANGED <<entryPoint, project, config, batch, orm, models, circularCheck, validation,
                 generatedModels, written, writeResult, clock>>

\* The schema file is modified by another process.  A run reads the file in
\* its two calls of parseSchemas and nowhere else, so the modification can make
\* a difference to the run only between the two: `await` gives it the
\* opportunity.
ModifySchema ==
  /\ entryPoint = "generateTypes" /\ pc = "parseEnums" /\ orm = "prisma"
  /\ project.schema # null /\ ~project.rewritten
  /\ project' = [project EXCEPT !.rewritten = TRUE]
  /\ UNCHANGED <<entryPoint, config, batch, pc, orm, models, enums, circularCheck, validation,
                 generatedModels, written, writeResult, result, clock>>

\* Step 2, second call: const { enums } = await parseSchemas(...), then the
\* check for an empty model list
ParseEnums ==
  /\ entryPoint = "generateTypes" /\ pc = "parseEnums"
  /\ Bind(parseSchemas(orm, project), LAMBDA parsed :
       IF parsed.threw
         THEN Throw(parsed.message) /\ enums' = enums
         ELSE /\ enums' = parsed.enums
              /\ IF Len(models) = 0
                   THEN Fail("No models found")
                   ELSE pc' = "analyze" /\ result' = result)
  /\ UNCHANGED <<entryPoint, project, config, batch, orm, models, circularCheck, validation,
                 generatedModels, written, writeResult, clock>>

\* AnalyzeReferences with a detected cycle treated as an error that ends the run
AnalyzeReferencesBlocking ==
  /\ entryPoint = "generateTypes" /\ pc = "analyze"
  /\ circularCheck' = detectCircularReferences(models)
  /\ IF circularCheck'.hasCircular
       THEN Fail("Circular references detected") /\ models' = models
       ELSE models' = markSelfReferences(models) /\ pc' = "validate" /\ result' = result
  /\ UNCHANGED <<entryPoint, project, config, batch, orm, enums, validation, generatedModels,
                 written, writeResult, clock>>

\* Step 3: detect circular references (logged only) and mark self-references
AnalyzeReferences ==
  /\ entryPoint = "generateTypes" /\ pc = "analyze"
  /\ circularCheck' = detectCircularReferences(models)
  /\ models' = markSelfReferences(models)
  /\ pc' = "validate"
  /\ UNCHANGED <<entryPoint, project, config, batch, orm, enums, validation, generatedModels,
                 written, writeResult, result, clock>>

\* Step 4: validate
Validate ==
  /\ entryPoint = "generateTypes" /\ pc = "validate"
  /\ validation' = validateModels(models)
  /\ IF ~validation'.valid
       THEN FailValidation(validation')
       ELSE pc' = "generate" /\ result' = result
  /\ UNCHANGED <<entryPoint, project, config, batch, orm, models, enums, circularCheck,
                 generatedModels, written, writeResult, clock>>

\* Step 5: generate the interface of every model
Generate ==
  /\ entryPoint = "generateTypes" /\ pc = "generate"
  /\ generatedModels' = generateTypesForModels(models, [allModels |-> models]
                                                          @@ restOptions(config))
  /\ pc' = "write"
  /\ UNCHANGED <<entryPoint, project, config, batch, orm, models, enums, circularCheck,
                 validation, written, writeResult, result, clock>>

\* the ISO text of a reading of the clock
isoString(t) == "2025-01-01T00:00:0" \o ToString(t) \o ".000Z"

\* The Writer (writers/file-writer.js): it is handed documents, each of which it
\* reports written or failed.
Handed(documents, oks) ==
  [i \in 1..Len(documents) |->
     [path |-> documents[i].path, content |-> documents[i].content, success |-> oks[i]]]

\* writeTypesByModel: one file per generated model, success when all were written
modelDocuments(generated, outputPath) ==
  [i \in 1..Len(generated) |->
     [path |-> pathJoin(outputPath, generated[i].modelName \o ".ts"),
      content |-> generated[i].generatedCode]]

\* Step 5 (separate mode): write one file per model, then the index file
WriteSeparate ==
  /\ entryPoint = "generateTypes" /\ pc = "write" /\ config.outputMode = "separate"
  /\ LET documents == modelDocuments(generatedModels, config.outputPath)
         indexContent == generateIndexFile([i \in 1..Len(models) |-> models[i].modelName],
                                           <<>>)
     IN \E oks \in [1..Len(documents) -> BOOLEAN], indexOk \in BOOLEAN :
          /\ writeResult' = [success |-> \A i \in 1..Len(documents) : oks[i]]
          /\ written' = written \o Handed(documents, oks)
                        \o <<[path |-> pathJoin(config.outputPath, "index.ts"),
                              content |-> indexContent, success |-> indexOk]>>
          /\ IF ~writeResult'.success
               THEN FailWrite(writeResult')
               ELSE pc' = "finish" /\ result' = result
  /\ UNCHANGED <<entryPoint, project, config, batch, orm, models, enums, circularCheck,
                 validation, generatedModels, clock>>

\* Step 5 (single mode): render the combined document and write it
WriteSingle ==
  /\ entryPoint = "generateTypes" /\ pc = "write" /\ config.outputMode # "separate"
  /\ \E now \in {clock, clock + 1}, ok \in BOOLEAN :
       LET allTypes == generateTypeScriptFile(models, [enums |-> enums] @@ restOptions(config),
                                             isoString(now))
           finalOutputPath == IF EndsWith(config.outputPath, ".ts") THEN config.outputPath
                              ELSE pathJoin(config.outputPath, "index.ts")
       IN /\ clock' = now
          /\ IF ~Truthy(config.outputPath)
               THEN /\ Fail("outputPath is required")
                    /\ UNCHANGED <<written, writeResult>>
               ELSE /\ writeResult' = [success |-> ok]
                    /\ written' = Append(written, [path |-> finalOutputPath,
                                                   content |-> allTypes, success |-> ok])
                    /\ IF ~ok THEN FailWrite(writeResult')
                       ELSE pc' = "finish" /\ result' = result
  /\ UNCHANGED <<entryPoint, project, config, batch, orm, models, enums, circularCheck,
                 validation, generatedModels>>

\* the return of a successful run; in single mode the document is rendered again
Finish ==
  /\ entryPoint = "generateTypes" /\ pc = "finish"
  /\ \E now \in {clock, clock + 1} :
       /\ clock' = IF config.outputMode = "separate" THEN clock ELSE now
       /\ result' = <<[success |-> TRUE, orm |-> orm, modelsCount |-> Len(models),
                       outputPath |-> config.outputPath,
                       models |-> [i \in 1..Len(models) |-> models[i].modelName],
                       generatedContent |->
                         IF config.outputMode = "separate" THEN null
                         ELSE generateTypeScriptFile(models,
                                                     [enums |-> enums] @@ restOptions(config),
                                                     isoString(now))]>>
  /\ pc' = "done"
  /\ UNCHANGED <<entryPoint, project, config, batch, orm, models, enums, circularCheck,
                 validation, generatedModels, written, writeResult>>

(***************************************************************************)
(* A caller of the library: normalizeModel on each model of the batch (or  *)
(* the field objects as written, as the generator's tests do), then        *)
(* detectCircularReferences, markSelfReferences and generateInterface.     *)
(***************************************************************************)
CallNormalizeModel ==
  /\ entryPoint = "library" /\ pc = "call"
  /\ models' = [i \in 1..Len(batch) |-> normalizeModel(batch[i])]
  /\ pc' = "detectCircular"
  /\ UNCHANGED <<entryPoint, project, config, batch, orm, enums, circularCheck, validation,
                 generatedModels, written, writeResult, result, clock>>

UseAsWritten ==
  /\ entryPoint = "library" /\ pc = "call"
  /\ models' = batch
  /\ pc' = "detectCircular"
  /\ UNCHANGED <<entryPoint, project, config, batch, orm, enums, circularCheck, validation,
                 generatedModels, written, writeResult, result, clock>>

CallDetectCircularReferences ==
  /\ entryPoint = "library" /\ pc = "detectCircular"
  /\ circularCheck' = detectCircularReferences(models)
  /\ pc' = "markSelf"
  /\ UNCHANGED <<entryPoint, project, config, batch, orm, models, enums, validation,
                 generatedModels, written, writeResult, result, clock>>

CallMarkSelfReferences ==
  /\ entryPoint = "library" /\ pc = "markSelf"
  /\ models' = markSelfReferences(models)
  /\ pc' = "generateInterface"
  /\ UNCHANGED <<entryPoint, project, config, batch, orm, enums, circularCheck, validation,
                 generatedModels, written, writeResult, result, clock>>

CallGenerateInterface ==
  /\ entryPoint = "library" /\ pc = "generateInterface"
  /\ \E standalone \in BOOLEAN :
       generatedModels' = generateTypesForModels(models, [standalone |-> standalone])
  /\ pc' = "done"
  /\ UNCHANGED <<entryPoint, project, config, batch, orm, models, enums, circularCheck,
                 validation, written, writeResult, result, clock>>

Next ==
  \/ DetectORM
  \/ ParseModels
  \/ ModifySchema
  \/ ParseEnums
  \/ AnalyzeReferences
  \/ Validate
  \/ Generate
  \/ WriteSeparate
  \/ WriteSingle
  \/ Finish
  \/ CallNormalizeModel
  \/ UseAsWritten
  \/ CallDetectCircularReferences
  \/ CallMarkSelfReferences
  \/ CallGenerateInterface

Spec == Init /\ [][Next]_vars

(***************************************************************************)
(* Reading the state                                                       *)
(***************************************************************************)
\* the models have been through detectCircularReferences and markSelfReferences
Analyzed ==
  \/ entryPoint = "library" /\ pc \in {"generateInterface", "done"}
  \/ entryPoint = "generateTypes" /\ pc \in {"validate", "generate", "write", "finish"}

\* every model has its generated code
Generated == Len(models) > 0 /\ Len(generatedModels) = Len(models)

\* the <<model, field>> index pairs of the batch
FieldsOf(ms) == UNION {{<<i, j>> : j \in 1..Len(ms[i].fields)} : i \in 1..Len(ms)}

\* line k of a text split in lines, "" outside of it
Line(lines, k) == IF k \in 1..Len(lines) THEN lines[k] ELSE ""

RECURSIVE lastLine(_, _)
RECURSIVE closingLine(_, _)
\* the last line of the member that starts at line k: the line itself, or the line
\* of the closing brace when the line opens an inline object
lastLine(lines, k) ==
  IF EndsWith(Line(lines, k), "{") THEN closingLine(lines, k + 1) ELSE k
closingLine(lines, k) ==
  IF k > Len(lines) \/ StartsWith(lines[k], "}") THEN k
  ELSE closingLine(lines, lastLine(lines, k) + 1)

RECURSIVE memberStart(_, _, _)
\* the line at which member j starts, the first member starting at line k
memberStart(lines, k, j) ==
  IF j = 1 THEN k ELSE memberStart(lines, lastLine(lines, k) + 1, j - 1)

\* the lines of the body of the interface declared in code
bodyLines(code) ==
  LET lines == Split(code, "\n")
      decl == {k \in 1..Len(lines) : Includes(lines[k], "interface ")}
  IN IF decl = {} THEN <<>> ELSE SubSeq(lines, Min(decl) + 1, Len(lines) - 1)

\* the text of member j of a body: its lines, joined
memberText(lines, j) ==
  LET first == memberStart(lines, 1, j)
  IN JoinStr(SubSeq(lines, first, Min({lastLine(lines, first), Len(lines)})), "\n")

\* the lines between the braces of member j
innerLines(lines, j) ==
  LET first == memberStart(lines, 1, j)
  IN SubSeq(lines, first + 1, Min({lastLine(lines, first), Len(lines) + 1}) - 1)

\* the rendered member of field j of model i
rendered(i, j) == memberText(bodyLines(generatedModels[i].generatedCode), j)

\* a member `  name?: type;` carries the optional marker / the null union
hasMarker(text, name) == StartsWith(text, "  " \o name \o "?: ")
hasNullUnion(text) == EndsWith(text, " | null;")

\* the type of a member, without the name, the null union and the semicolon
typeOf(text, name) ==
  LET from == Len(name) + (IF hasMarker(text, name) THEN 6 ELSE 5)
      to == Len(text) - (IF hasNullUnion(text) THEN 8 ELSE 1)
  IN SubSeq(text, from, to)

RECURSIVE MarkersAgree(_, _)
\* every field of fields, rendered as the members of lines, has the marker and the
\* null union when it is not required and neither when it is; so have the fields
\* of its inline object
MarkersAgree(fields, lines) ==
  \A j \in 1..Len(fields) :
    LET text == memberText(lines, j)
        name == fields[j].name
    IN /\ StartsWith(text, "  " \o name \o ": ") \/ hasMarker(text, name)
       /\ hasMarker(text, name) = ~Flag(fields[j], "required")
       /\ hasNullUnion(text) = ~Flag(fields[j], "required")
       /\ EndsWith(Line(lines, memberStart(lines, 1, j)), "{")
            => /\ List(fields[j], "nested") # <<>>
               /\ MarkersAgree(fields[j].nested[1], innerLines(lines, j))

\* the reference edges of the batch: model -> target of a singular reference
RefEdges(ms) ==
  {<<ms[e[1]].modelName, ms[e[1]].fields[e[2]].referenceTo>> :
     e \in {f \in FieldsOf(ms) : /\ Flag(ms[f[1]].fields[f[2]], "isReference")
                                 /\ Truthy(Str(ms[f[1]].fields[f[2]], "referenceTo"))}}

\* the edges through array relations: model -> element kind, when that is a model
ArrayEdges(ms) ==
  {<<ms[e[1]].modelName, ms[e[1]].fields[e[2]].arrayOf>> :
     e \in {f \in FieldsOf(ms) :
              /\ Flag(ms[f[1]].fields[f[2]], "isArray")
              /\ \E m \in 1..Len(ms) : ms[m].modelName = Str(ms[f[1]].fields[f[2]], "arrayOf")}}

\* the model names of a reported path
pathNames(path) == {Split(path, " -> ")[k] : k \in 1..Len(Split(path, " -> "))}

\* the entries of the schema definition the Mongoose model of that name came from
definitionOf(modelName) ==
  LET at == {k \in 1..Len(project.modelFiles) :
               /\ extractSchemaFromFile(project.modelFiles[k]) # <<>>
               /\ extractSchemaFromFile(project.modelFiles[k])[1].modelName = modelName}
  IN IF at = {} THEN <<>>
     ELSE project.modelFiles[Min(at)].exports[1].schema.obj.entries

\* the strings of an array of string values
stringsOf(array) == [k \in 1..Len(array.items) |-> array.items[k].s]

(***************************************************************************)
(* Properties                                                              *)
(***************************************************************************)
\* the Prisma schema declares the field with @id and without the `?` marker
declaredId(name) == Includes(project.schema, "  " \o name \o " String @id")

\* C1: every Prisma field declared with @id and no `?` comes out of the adapter
\* with required = true and is rendered with neither the `?` marker nor the
\* `| null` union.
C1_PrimaryKeyIsRequired ==
  (entryPoint = "generateTypes" /\ orm = "prisma") =>
    \A f \in FieldsOf(models) :
      declaredId(models[f[1]].fields[f[2]].name) =>
        /\ models[f[1]].fields[f[2]].required = TRUE
        /\ Generated =>
             /\ ~hasMarker(rendered(f[1], f[2]), models[f[1]].fields[f[2]].name)
             /\ ~hasNullUnion(rendered(f[1], f[2]))

\* the schema definition gives the field a descriptor with a `type` and an `enum`
typeAndEnum(modelName, name) ==
  {e \in {definitionOf(modelName)[k] : k \in 1..Len(definitionOf(modelName))} :
     e.key = name /\ HasProp(e.val, "type") /\ HasProp(e.val, "enum")}

\* C2: a Mongoose field whose descriptor carries both `type` and `enum` is
\* classified as an enum with the declared values in order, and is rendered as
\* the union of the string literals.
C2_TypeWithEnumIsEnum ==
  (entryPoint = "generateTypes" /\ orm = "mongoose") =>
    \A f \in FieldsOf(models) :
      \A e \in typeAndEnum(models[f[1]].modelName, models[f[1]].fields[f[2]].name) :
        /\ Flag(models[f[1]].fields[f[2]], "isEnum")
        /\ List(models[f[1]].fields[f[2]], "enumValues") = <<stringsOf(Prop(e.val, "enum"))>>
        /\ Generated =>
             typeOf(rendered(f[1], f[2]), e.key) = enumUnion(stringsOf(Prop(e.val, "enum")))

arrayOfEnum(modelName, name) ==
  {e \in {definitionOf(modelName)[k] : k \in 1..Len(definitionOf(modelName))} :
     /\ e.key = name /\ e.val.k = "array" /\ Len(e.val.items) > 0
     /\ HasProp(e.val.items[1], "enum")}

\* C4: an array field whose element is an enum is rendered as the parenthesized
\* union followed by [], for a field that came through the Mongoose adapter and
\* for a field that has isArray and isEnum both set.
C4_EnumArrayParenthesized ==
  Generated =>
    \A f \in FieldsOf(models) :
      /\ (/\ entryPoint = "library"
          /\ Flag(models[f[1]].fields[f[2]], "isArray")
          /\ Flag(models[f[1]].fields[f[2]], "isEnum")
          /\ List(models[f[1]].fields[f[2]], "enumValues") # <<>>)
           => typeOf(rendered(f[1], f[2]), models[f[1]].fields[f[2]].name)
                = "(" \o enumUnion(models[f[1]].fields[f[2]].enumValues[1]) \o ")[]"
      /\ (entryPoint = "generateTypes" /\ orm = "mongoose") =>
           \A e \in arrayOfEnum(models[f[1]].modelName, models[f[1]].fields[f[2]].name) :
             typeOf(rendered(f[1], f[2]), e.key)
               = "(" \o enumUnion(stringsOf(Prop(e.val.items[1], "enum"))) \o ")[]"

\* C5: for two distinct models that reference each other and nothing else,
\* detectCircularReferences reports exactly one path, one rotation of the cycle.
C5_MutualCycleReportedOnce ==
  (/\ Analyzed
   /\ Len(models) = 2
   /\ models[1].modelName # models[2].modelName
   /\ RefEdges(models) = {<<models[1].modelName, models[2].modelName>>,
                          <<models[2].modelName, models[1].modelName>>})
    => /\ circularCheck.hasCircular
       /\ Len(circularCheck.circularPaths) = 1
       /\ pathNames(circularCheck.circularPaths[1])
            = {models[1].modelName, models[2].modelName}

\* C6: when the only reference edges are self-loops detectCircularReferences
\* reports nothing, and every path it ever reports goes through at least two
\* distinct models.
C6_SelfLoopNotCircular ==
  Analyzed =>
    /\ (\A e \in RefEdges(models) : e[1] = e[2])
         => ~circularCheck.hasCircular /\ circularCheck.circularPaths = <<>>
    /\ \A k \in 1..Len(circularCheck.circularPaths) :
         Cardinality(pathNames(circularCheck.circularPaths[k])) >= 2

\* C7: after markSelfReferences a field is flagged isSelfReference exactly when
\* its reference target, carried by referenceTo or by arrayOf, is the name of its
\* own model; a flagged field is rendered as the model name or the model name
\* followed by [].
C7_SelfReferenceMarked ==
  Analyzed =>
    \A f \in FieldsOf(models) :
      /\ Flag(models[f[1]].fields[f[2]], "isSelfReference")
           = (\/ Str(models[f[1]].fields[f[2]], "referenceTo") = models[f[1]].modelName
              \/ Str(models[f[1]].fields[f[2]], "arrayOf") = models[f[1]].modelName)
      /\ (Generated /\ Flag(models[f[1]].fields[f[2]], "isSelfReference"))
           => typeOf(rendered(f[1], f[2]), models[f[1]].fields[f[2]].name)
                \in {models[f[1]].modelName, models[f[1]].modelName \o "[]"}

\* C8: the graph has an edge for every singular reference and for every array
\* relation, so two distinct models that reach each other through such edges are
\* reported as a circular path through both.
C8_CycleThroughArrayRelation ==
  Analyzed =>
    \A a \in 1..Len(models), b \in 1..Len(models) :
      (/\ models[a].modelName # models[b].modelName
       /\ <<models[a].modelName, models[b].modelName>>
            \in RefEdges(models) \cup ArrayEdges(models)
       /\ <<models[b].modelName, models[a].modelName>>
            \in RefEdges(models) \cup ArrayEdges(models))
        => /\ circularCheck.hasCircular
           /\ \E k \in 1..Len(circularCheck.circularPaths) :
                {models[a].modelName, models[b].modelName}
                  \subseteq pathNames(circularCheck.circularPaths[k])

\* every model document was handed to the Writer and written
allWritten ==
  /\ written # <<>>
  /\ \A k \in 1..Len(written) :
       \/ written[k].success
       \/ config.outputMode = "separate" /\ EndsWith(written[k].path, "/index.ts")

\* C9: a run of generateTypes that detected a cycle still goes through validation,
\* generation and writing: it ends with the success that validation and writing
\* alone decide, and whenever the models are valid and there is an output path the
\* documents were handed to the Writer.
C9_CyclesNeverBlock ==
  (entryPoint = "generateTypes" /\ circularCheck.hasCircular) =>
    /\ pc = "done" =>
         /\ result[1].success
              = (validateModels(models).valid /\ Truthy(config.outputPath) /\ allWritten)
         /\ (validateModels(models).valid /\ Truthy(config.outputPath)) =>
              Generated /\ written # <<>>
    /\ pc \in {"validate", "generate", "write", "finish", "done"}

\* a run that detected a cycle has returned success
C9_Witness ==
  /\ entryPoint = "generateTypes" /\ pc = "done"
  /\ circularCheck.hasCircular
  /\ result[1].success
  /\ written # <<>>

\* the adapter returned, and returned no model: the first parseSchemas is over, it
\* did not throw (a run that ended in the catch has a stack) and left no model
adapterReturnedNone ==
  /\ entryPoint = "generateTypes" /\ orm # null
  /\ pc # "parseModels"
  /\ Len(models) = 0
  /\ ~(result # <<>> /\ "stack" \in DOMAIN result[1])

\* C10: when the adapter returns zero models the run ends with success = false
\* and "No models found", and nothing is generated or handed to the Writer.
C10_NoModelsFound ==
  adapterReturnedNone =>
    /\ pc \in {"parseEnums", "done"}
    /\ pc = "done" => result = <<[success |-> FALSE, error |-> "No models found"]>>
    /\ generatedModels = <<>>
    /\ written = <<>>

\* a run over a project whose adapter found no model has returned
C10_Witness ==
  /\ adapterReturnedNone
  /\ pc = "done"
  /\ \E o \in {"prisma", "mongoose"} : orm = o /\ result[1].error = "No models found"

\* C11: rendering is deterministic: two invocations of the renderer on the same
\* models, enums and options return the same text.  A successful run in single
\* mode renders the combined document twice, once for the Writer and once for
\* the result; the two texts are the same.
C11_RenderingDeterministic ==
  (/\ entryPoint = "generateTypes" /\ pc = "done"
   /\ result[1].success
   /\ config.outputMode # "separate")
    => result[1].generatedContent = written[Len(written)].content

\* C12: normalizeModel and normalizeField are idempotent: normalizing what they
\* returned returns it unchanged, for the models a caller hands in (with absent
\* and falsy attributes) and for the models the adapters normalized.
C12_NormalizeIdempotent ==
  /\ (entryPoint = "library" /\ pc = "detectCircular") =>
       \A i \in 1..Len(batch) :
         Bind(normalizeModel(batch[i]), LAMBDA once :
           /\ normalizeModel(once) = once
           /\ \A j \in 1..Len(once.fields) : normalizeField(once.fields[j]) = once.fields[j])
  /\ (entryPoint = "generateTypes" /\ pc = "parseEnums") =>
       \A i \in 1..Len(models) : normalizeModel(models[i]) = models[i]

\* normalizeModel has been called on a model with a field that has absent and
\* falsy attributes and on one that leaves `required` out
C12_Witness ==
  /\ entryPoint = "library" /\ pc = "detectCircular"
  /\ \E i \in 1..Len(batch) :
       /\ models[i] = normalizeModel(batch[i])
       /\ models[i] # batch[i]
       /\ \E j, k \in 1..Len(batch[i].fields) :
            /\ "required" \notin DOMAIN batch[i].fields[j]
            /\ Str(batch[i].fields[k], "type") = ""
            /\ models[i].fields[k].type = STANDARD_TYPES.ANY

\* the document handed to the Writer under that path, if any
writtenAt(path) == {k \in 1..Len(written) : written[k].path = path}

\* C13: a successful run in separate mode over N models hands N + 2 documents to
\* the Writer: one per model, the shared enums document, and the index document,
\* which re-exports every model and every enum.
C13_SeparateModeArtifacts ==
  (/\ entryPoint = "generateTypes" /\ pc = "done"
   /\ result[1].success
   /\ config.outputMode = "separate")
    => /\ Len(written) = Len(models) + 2
       /\ \A i \in 1..Len(models) :
            writtenAt(pathJoin(config.outputPath, models[i].modelName \o ".ts")) # {}
       /\ writtenAt(pathJoin(config.outputPath, "enums.ts")) # {}
       /\ \E k \in writtenAt(pathJoin(config.outputPath, "index.ts")) :
            /\ \A i \in 1..Len(models) :
                 Includes(written[k].content,
                          "export type { " \o models[i].modelName \o " } from './"
                            \o models[i].modelName \o "';")
            /\ \A e \in 1..Len(enums) :
                 /\ Includes(written[k].content, "from './enums';")
                 /\ Includes(written[k].content, enums[e].name)

RECURSIVE usedNames(_)
\* the model and enum names the fields use: as the element of an array, as the
\* target of a reference, as their type, or inside their inline objects
usedNames(fields) ==
  UNION {(IF Flag(fields[j], "isArray") /\ Truthy(Str(fields[j], "arrayOf"))
            THEN {fields[j].arrayOf} \ primitives
          ELSE IF Flag(fields[j], "isReference") /\ Truthy(Str(fields[j], "referenceTo"))
            THEN {fields[j].referenceTo}
          ELSE IF Truthy(Str(fields[j], "type"))
            THEN {fields[j].type} \ primitives
          ELSE {})
         \cup (IF List(fields[j], "nested") # <<>>
                 THEN usedNames(fields[j].nested[1]) ELSE {}) :
         j \in 1..Len(fields)}

\* C14: the import list collectTypeDependencies computes for a model holds every
\* other model name and every enum name its fields use, directly, as an array
\* element or inside an inline object; it holds no name twice and never the
\* model's own name.
C14_ImportsCoverUses ==
  (entryPoint = "library" /\ pc = "done") =>
    \A i \in 1..Len(models) :
      Bind(collectTypeDependencies(models[i], <<>>), LAMBDA deps :
        Bind(deps.enums \o deps.models, LAMBDA names :
          /\ usedNames(models[i].fields) \ {models[i].modelName}
               \subseteq {names[k] : k \in 1..Len(names)}
          /\ \A k, l \in 1..Len(names) : names[k] = names[l] => k = l
          /\ \A k \in 1..Len(names) : names[k] # models[i].modelName))

\* the import lines of a rendered document
importLines(code) ==
  Bind(Split(code, "\n"), LAMBDA lines :
    {lines[k] : k \in {l \in 1..Len(lines) : StartsWith(lines[l], "import ")}})

\* the enum names of the run
enumNames == {enums[k].name : k \in 1..Len(enums)}

\* the text of line between its opening and its closing brace
braced(line) ==
  SubSeq(line, IndexFrom(line, "{ ", 1) + 2, IndexFrom(line, " }", 1) - 1)

\* C15: in every rendered per-model document an import line is either the value
\* import `import { E, ... } from './enums';` of enums only, or the type-only import
\* `import type { M } from './M';` of one model that is not an enum.
C15_ImportForms ==
  Generated =>
    \A i \in 1..Len(generatedModels) :
      \A line \in importLines(generatedModels[i].generatedCode) :
        IF StartsWith(line, "import type { ")
          THEN /\ line = "import type { " \o braced(line) \o " } from './"
                         \o braced(line) \o "';"
               /\ braced(line) \notin enumNames
          ELSE /\ line = "import { " \o braced(line) \o " } from './enums';"
               /\ \A k \in 1..Len(Split(braced(line), ", ")) :
                    Split(braced(line), ", ")[k] \in enumNames

\* the configuration names a specific adapter
configuredOrm == IF "orm" \in DOMAIN config THEN config.orm ELSE "auto"

\* C16: when the configuration names the adapter (orm 'prisma' or 'mongoose'), the
\* run parses with that adapter, whatever files and dependencies the project has:
\* once detection is over the adapter of the run is the configured one, and the
\* result of a successful run names it.
C16_ConfiguredAdapterUsed ==
  (entryPoint = "generateTypes" /\ pc # "detect"
   /\ configuredOrm \in {"prisma", "mongoose"})
    => /\ orm = configuredOrm
       /\ (pc = "done" /\ result[1].success) => result[1].orm = configuredOrm

\* C17: a run completes or fails entirely.  When generateTypes returns success =
\* false, no document of the run has been written; when it returns success =
\* true, every document of the run (each model's document and the index in
\* separate mode, the single document in single mode) was handed to the Writer
\* and reported written.
C17_AllOrNothing ==
  (entryPoint = "generateTypes" /\ pc = "done") =>
    IF result[1].success
      THEN /\ Len(written) > 0
           /\ \A k \in 1..Len(written) : written[k].success
           /\ config.outputMode = "separate" =>
                /\ \A i \in 1..Len(models) :
                     writtenAt(pathJoin(config.outputPath, models[i].modelName \o ".ts")) # {}
                /\ writtenAt(pathJoin(config.outputPath, "index.ts")) # {}
      ELSE \A k \in 1..Len(written) : ~written[k].success

\* the names, in the order of the schema, of the model blocks that are well-formed:
\* `model Name {`, then lines without a brace, then the closing brace
wellFormedBlocks(schema) ==
  Bind(Split(schema, "model "), LAMBDA parts :
    Flatten([k \in 1..(Len(parts) - 1) |->
               Bind(parts[k + 1], LAMBDA part :
                 Bind(IndexFrom(part, " {\n", 1), LAMBDA open :
                   Bind(IndexFrom(part, "}", 1), LAMBDA close :
                     IF /\ open > 1 /\ close > open
                        /\ \A c \in 1..(open - 1) : CharAt(part, c) \in wordChars
                        /\ ~Includes(SubSeq(part, open + 2, close - 1), "{")
                       THEN <<SubSeq(part, 1, open - 1)>> ELSE <<>>)))]))

\* the names, in the order of the directory, of the modules that load and export a
\* schema: the registered model name, or the one the file is named after
loadableModules(files) ==
  Flatten([k \in 1..Len(files) |->
             IF files[k].exports = <<>> THEN <<>>
             ELSE IF files[k].exports[1].modelName # null
               THEN <<files[k].exports[1].modelName>>
             ELSE <<CHOOSE name \in DOMAIN lowerName :
                      lowerName[name] \o ".js" = files[k].path>>])

\* the models the source of the run holds, leaving out what cannot be parsed
parseable ==
  IF orm = "prisma" THEN wellFormedBlocks(project.schema)
  ELSE loadableModules(project.modelFiles)

\* C18: one Prisma block that cannot be parsed, or one Mongoose module that cannot
\* be loaded, is skipped alone: the adapter yields every other model of the source
\* in its original order, and a successful run reports exactly those models.
C18_BlockScopedRecovery ==
  (entryPoint = "generateTypes" /\ orm # null /\ pc \notin {"detect", "parseModels"}
   /\ (pc = "done" => "stack" \notin DOMAIN result[1]))
    => /\ [i \in 1..Len(models) |-> models[i].modelName] = parseable
       /\ (pc = "done" /\ result[1].success) =>
            /\ result[1].modelsCount = Len(parseable)
            /\ result[1].models = parseable

\* C19: a model with a field without a name or without a type is reported alone and
\* the batch goes on: when the run has ended and validation found an invalid model,
\* every model that validation found well-formed has been generated and handed to
\* the Writer.
C19_InvalidModelDoesNotAbortBatch ==
  (entryPoint = "generateTypes" /\ pc = "done" /\ validation.invalid > 0) =>
    \A i \in 1..Len(models) :
      validateSchema(models[i]).valid =>
        /\ \E g \in 1..Len(generatedModels) :
             generatedModels[g].modelName = models[i].modelName
        /\ \E k \in 1..Len(written) :
             Includes(written[k].content, "interface " \o models[i].modelName \o " {")

\* the model names the adapter yielded are pairwise distinct
namesUnique ==
  \A i, j \in 1..Len(models) : models[i].modelName = models[j].modelName => i = j

\* C20: model names are unique across the batch of a run.  When the adapter has
\* yielded two models of the same name the run ends in failure and nothing is
\* written; a successful run has pairwise distinct model names and writes no
\* path twice.
C20_ModelNamesUnique ==
  (entryPoint = "generateTypes" /\ pc = "done") =>
    /\ ~namesUnique => (~result[1].success /\ written = <<>>)
    /\ result[1].success =>
         /\ \A i, j \in 1..Len(result[1].models) :
              result[1].models[i] = result[1].models[j] => i = j
         /\ \A k, l \in 1..Len(written) : written[k].path = written[l].path => k = l

\* the position of the brace that balances the opening brace at content[open], 0
\* when there is none
balancedClose(content, open) ==
  Bind({p \in (open + 1)..Len(content) :
          /\ CharAt(content, p) = "}"
          /\ Cardinality({q \in open..p : CharAt(content, q) = "{"})
             = Cardinality({q \in open..p : CharAt(content, q) = "}"})},
       LAMBDA closes : IF closes = {} THEN 0 ELSE Min(closes))

\* the names of the field lines between the opening brace at content[open] and
\* the brace at content[close]
declaredFields(content, open, close) ==
  Bind(Split(SubSeq(content, open + 1, close - 1), "\n"), LAMBDA lines :
    {SubSeq(Trim(lines[k]), 1, RunLen(Trim(lines[k]), 1, wordChars)) :
       k \in {l \in 1..Len(lines) :
                /\ Trim(lines[l]) # ""
                /\ ~StartsWith(Trim(lines[l]), "//")
                /\ ~StartsWith(Trim(lines[l]), "@@")}})

\* C21: a model block is matched from `model Name {` to the brace that balances
\* its opening brace: every field line of the balanced block, the lines after a
\* nested pair of braces included, is a field of the model the adapter yields.
C21_BalancedBlock ==
  (entryPoint = "generateTypes" /\ orm = "prisma" /\ project.schema # null
   /\ pc \notin {"detect", "parseModels"})
    => \A i \in 1..Len(models) :
         Bind(IndexFrom(project.schema, "model " \o models[i].modelName \o " {", 1),
              LAMBDA at :
           Bind(at + Len(models[i].modelName) + 7, LAMBDA open :
             Bind(balancedClose(project.schema, open), LAMBDA close :
               (at # 0 /\ close # 0) =>
                 declaredFields(project.schema, open, close)
                   \subseteq {models[i].fields[j].name :
                                j \in 1..Len(models[i].fields)})))

\* the model an array field's elements refer to, "" when they refer to none: the
\* target of the element's reference, or the element kind when it names a model
elementModel(field) ==
  IF ~Flag(field, "isArray") \/ Flag(field, "isEnum") \/ Flag(field, "isEnumArray") THEN ""
  ELSE IF Flag(field, "isReference") /\ Truthy(Str(field, "referenceTo"))
    THEN field.referenceTo
  ELSE IF \E m \in 1..Len(models) : models[m].modelName = Str(field, "arrayOf")
    THEN field.arrayOf
  ELSE ""

\* C22: an array field whose elements are references to the model M is rendered
\* as `M[]`, never as an array of the foreign-key type, whichever adapter the
\* field came from.
C22_ReferenceArrayRendersModel ==
  Generated =>
    \A e \in FieldsOf(models) :
      elementModel(models[e[1]].fields[e[2]]) # "" =>
        typeOf(rendered(e[1], e[2]), models[e[1]].fields[e[2]].name)
          = elementModel(models[e[1]].fields[e[2]]) \o "[]"

\* the field of that name is declared with a date type in the source of the run:
\* `DateTime` in the Prisma schema, the Date constructor in the Mongoose schema
declaredDate(modelName, name) ==
  IF orm = "prisma"
    THEN \/ Includes(project.schema, "  " \o name \o " DateTime\n")
         \/ Includes(project.schema, "  " \o name \o " DateTime?\n")
    ELSE \E k \in 1..Len(definitionOf(modelName)) :
           /\ definitionOf(modelName)[k].key = name
           /\ \/ definitionOf(modelName)[k].val = jsFunction("Date")
              \/ Prop(definitionOf(modelName)[k].val, "type") = jsFunction("Date")

\* C23: a date-valued source field is rendered as the textual type `string` and
\* never as the native `Date`: a field declared as a date has the type string, and
\* no member of a document generated by a run (plain, optional, array element or
\* member of an inline object) mentions Date.
C23_DateRendersAsString ==
  (entryPoint = "generateTypes" /\ Generated) =>
    \A e \in FieldsOf(models) :
      /\ declaredDate(models[e[1]].modelName, models[e[1]].fields[e[2]].name)
           => typeOf(rendered(e[1], e[2]), models[e[1]].fields[e[2]].name) = "string"
      /\ ~Includes(rendered(e[1], e[2]), "Date")

\* the step is the call of markSelfReferences, by a caller of the library or by
\* step 3 of a run
marking ==
  \/ entryPoint = "library" /\ pc = "markSelf" /\ pc' = "generateInterface"
  \/ entryPoint = "generateTypes" /\ pc = "analyze" /\ pc' = "validate"

\* the field after marking is the field before it, but for isSelfReference
patchedOnly(before, after) ==
  /\ DOMAIN after \ {"isSelfReference"} = DOMAIN before \ {"isSelfReference"}
  /\ \A key \in DOMAIN before \ {"isSelfReference"} : after[key] = before[key]
  /\ fieldToTypeScript(after) = fieldToTypeScript(before)

\* C24: markSelfReferences does not change its input.  Over the call the batch the
\* caller holds stays as it was, and the batch returned has the same models in the
\* same order, each with the same attributes and the same fields in the same
\* order; a returned field differs from the field it was made from in at most
\* isSelfReference, and renders as the same type.
C24_MarkingPatchesOnlyTheFlag ==
  [][marking =>
       /\ batch' = batch
       /\ Len(models') = Len(models)
       /\ \A i \in 1..Len(models) :
            /\ DOMAIN models'[i] = DOMAIN models[i]
            /\ \A key \in DOMAIN models[i] \ {"fields"} : models'[i][key] = models[i][key]
            /\ Len(models'[i].fields) = Len(models[i].fields)
            /\ \A j \in 1..Len(models[i].fields) :
                 patchedOnly(models[i].fields[j], models'[i].fields[j])]_vars

\* a caller has marked a batch it handed over as written: a field of the returned
\* batch carries isSelfReference and the caller's own field does not
C24_Witness ==
  /\ entryPoint = "library" /\ pc = "generateInterface"
  /\ \E e \in FieldsOf(models) :
       /\ Flag(models[e[1]].fields[e[2]], "isSelfReference")
       /\ "isSelfReference" \notin DOMAIN batch[e[1]].fields[e[2]]
       /\ [key \in DOMAIN batch[e[1]].fields[e[2]] |-> models[e[1]].fields[e[2]][key]]
            = batch[e[1]].fields[e[2]]

RECURSIVE nestedComplete(_)
\* every field of the inline objects of fields, at every depth, has its canonical
\* defaults filled: normalizing it changes nothing
nestedComplete(fields) ==
  \A j \in 1..Len(fields) :
    List(fields[j], "nested") # <<>> =>
      /\ \A k \in 1..Len(fields[j].nested[1]) :
           normalizeField(fields[j].nested[1][k]) = fields[j].nested[1][k]
      /\ nestedComplete(fields[j].nested[1])

\* the members of the inline object of a field, as generateInlineInterface
\* renders them
inlineMembers(field) == Split(generateInlineInterface(field.nested[1]), "\n")

\* C25: normalizeField completes nested fields recursively.  In a batch that came
\* out of normalizeModel every nested field has all canonical defaults, and a
\* nested field the caller gave without `required` is rendered in the inline
\* object as required, without `?` and without `| null`.
C25_NestedFieldsNormalized ==
  (entryPoint = "library" /\ pc = "detectCircular"
   /\ models = [i \in 1..Len(batch) |-> normalizeModel(batch[i])])
    => \A e \in FieldsOf(models) :
         /\ nestedComplete(<<models[e[1]].fields[e[2]]>>)
         /\ List(batch[e[1]].fields[e[2]], "nested") # <<>> =>
              \A k \in 1..Len(batch[e[1]].fields[e[2]].nested[1]) :
                "required" \notin DOMAIN batch[e[1]].fields[e[2]].nested[1][k] =>
                  /\ ~Includes(inlineMembers(models[e[1]].fields[e[2]])[k + 1], "?")
                  /\ ~Includes(inlineMembers(models[e[1]].fields[e[2]])[k + 1], "| null")

\* the reference edges between models of the batch
batchEdges ==
  {e \in RefEdges(models) : \E m \in 1..Len(models) : models[m].modelName = e[2]}

\* the sets of two or more models that a directed cycle of reference edges runs
\* through, each model once
cycles ==
  {S \in SUBSET {models[m].modelName : m \in 1..Len(models)} :
     /\ Cardinality(S) >= 2
     /\ \E order \in [1..Cardinality(S) -> S] :
          /\ \A k, l \in 1..Cardinality(S) : order[k] = order[l] => k = l
          /\ \A k \in 1..Cardinality(S) :
               <<order[k], order[(k % Cardinality(S)) + 1]>> \in batchEdges}

\* C26: cycle detection misses no cycle.  When the singular references between
\* the models of the batch form a cycle through two or more models,
\* detectCircularReferences answers hasCircular and one of the paths it reports
\* visits the models of such a cycle.
C26_NoCycleMissed ==
  (Analyzed /\ cycles # {}) =>
    /\ circularCheck.hasCircular
    /\ \E k \in 1..Len(circularCheck.circularPaths) :
         \E S \in cycles : S \subseteq pathNames(circularCheck.circularPaths[k])

\* the <<model, field>> pairs from which detectCircularReferences calls hasCycle
startingFields ==
  {f \in FieldsOf(models) : /\ Flag(models[f[1]].fields[f[2]], "isReference")
                            /\ Truthy(Str(models[f[1]].fields[f[2]], "referenceTo"))}

\* the depth of the deepest activation of hasCycle in detectCircularReferences
recursionDepth ==
  Max({0} \cup {hasCycle(models, models[f[1]].modelName, models[f[1]].fields[f[2]].referenceTo,
                         <<models[f[1]].modelName>>, <<>>).depth : f \in startingFields})

\* C27: detectCircularReferences terminates on every batch, with cycles,
\* self-references, several references to one target and references to models
\* outside the batch: it has returned its answer, and no activation of hasCycle
\* was nested deeper than the number of models of the batch plus one.
C27_DetectionTerminates ==
  Analyzed =>
    /\ circularCheck.hasCircular = (Len(circularCheck.circularPaths) > 0)
    /\ recursionDepth <= Len(models) + 1

\* the detection has run on the batch that has a cycle, a self-reference, two
\* references to one target and references outside the batch, and its recursion
\* went as deep as the batch has models
C27_Witness ==
  /\ Analyzed
  /\ batch = referenceBatch(<<<<"A", "B", "B", "X">>, <<"X", "A">>>>)
  /\ circularCheck.hasCircular
  /\ recursionDepth = Len(models)

\* the names of a reported path, in order
pathList(path) == Split(path, " -> ")

\* C28: every reported path is a closed cycle: its first and last names are the
\* same, no other name repeats, and every consecutive pair is a reference edge of
\* the batch; no path has a lead-in before the cycle.
C28_ReportedPathsAreClosed ==
  Analyzed =>
    \A k \in 1..Len(circularCheck.circularPaths) :
      Bind(pathList(circularCheck.circularPaths[k]), LAMBDA names :
        /\ Len(names) >= 2
        /\ names[1] = names[Len(names)]
        /\ \A a, b \in 1..(Len(names) - 1) : names[a] = names[b] => a = b
        /\ \A a \in 1..(Len(names) - 1) : <<names[a], names[a + 1]>> \in RefEdges(models))

\* the names a rendered document imports
importedNames(code) ==
  UNION {{Split(braced(line), ", ")[k] : k \in 1..Len(Split(braced(line), ", "))} :
           line \in importLines(code)}

\* the names of the models and of the declared enums of the run
declaredNames == {models[m].modelName : m \in 1..Len(models)} \cup enumNames

\* C29: when every reference of the models an adapter yielded targets a model or
\* an enum of the run, every name a standalone document imports is the name of a
\* model or of a declared enum: nothing is imported for a built-in type
\* expression such as Record<string, unknown>.
C29_ImportsAreDeclaredNames ==
  (/\ entryPoint = "generateTypes" /\ Generated
   /\ \A e \in RefEdges(models) \cup ArrayEdges(models) : e[2] \in declaredNames)
    => \A i \in 1..Len(generatedModels) :
         /\ importedNames(generatedModels[i].generatedCode) \subseteq declaredNames
         /\ \A name \in {collectTypeDependencies(models[i], enums).models[k] :
                           k \in 1..Len(collectTypeDependencies(models[i], enums).models)} :
              name \in declaredNames

\* C30: the models and the enums of a run come from one content of the schema
\* file.  When both calls of parseSchemas have returned, the content the enums
\* were read from (the file as it is now: it is not written after the second
\* read) is also the content the models were parsed from.
C30_OneVersionOfTheSchema ==
  (entryPoint = "generateTypes" /\ orm = "prisma" /\ pc = "analyze")
    => /\ models = parsePrismaSchema(readSchema(project), schemaPathOf).models
       /\ enums = parsePrismaSchema(readSchema(project), schemaPathOf).enums

====
